---- MODULE Spec2Model ----
(***************************************************************************)
(* ThinkHub platform: the relational store and the RPC handlers that write *)
(* it (challenges, certificates, tutorial likes, AI tutor usage limiting,  *)
(* subscriptions).  Tables are sets of rows; a handler is one action when  *)
(* calls run one after another.  Dates are abstract instants (naturals);   *)
(* `now` is the server's wall clock.  Each group of handlers has its own   *)
(* specification over the shared store: SpecChallenge, SpecLike, SpecAI,   *)
(* SpecSub.                                                                *)
(***************************************************************************)
EXTENDS Integers, FiniteSets, Sequences, TLC

VARIABLES now, users, challenges, userPoints, certificates, tutorials,
          userLikes, chatMessages, seq, ret,
          roadmaps, userProgress, projects, resources, userDownloads, calls

vars == <<now, users, challenges, userPoints, certificates, tutorials,
          userLikes, chatMessages, seq, ret,
          roadmaps, userProgress, projects, resources, userDownloads, calls>>

\* The tables of progress tracking and of the download catalogue, and the
\* calls in flight; the handlers of the first groups leave them alone.
other == <<roadmaps, userProgress, projects, resources, userDownloads, calls>>

(***************************************************************************)
(* Bounds of the model.                                                    *)
(***************************************************************************)
MaxNow == 4
MaxLikeRows == 3
MaxSends == 3
MaxProgressRows == 2
MaxTitleLen == 5
MaxDownloads == 3
MaxNameLen == 1
MonthTicks == 2
YearTicks == 3

UserIds == {1, 2}
ChallengeIds == {1, 2}
TutorialIds == {1, 2}
Emails == {"a@example.com", "b@example.com"}
StartDates == {1, 2}
EndDates == {2}
Rewards == {50, 100}
Durations == {"monthly", "annual"}

\* subscription_expires_at is a nullable timestamp: Null stands for SQL NULL,
\* a value that no instant, id or sum of the model takes.
Null == -1000

\* The daily ceilings of checkAIUsageLimit.
ProLimit == 100
FreeLimit == 10

NoRet == [op |-> "none"]

(***************************************************************************)
(* Row selection, as the handlers' db.select().where(...) statements.      *)
(***************************************************************************)
UserById(id) == {r \in users : r.id = id}
UserByEmail(e) == {r \in users : r.email = e}
ChallengeById(id) == {r \in challenges : r.id = id}
TutorialById(id) == {r \in tutorials : r.id = id}
PointsOf(u, c) == {r \in userPoints : r.user_id = u /\ r.challenge_id = c}
CertificatesOf(u, c) == {r \in certificates : r.user_id = u /\ r.challenge_id = c}
LikesOf(u, t) == {r \in userLikes : r.user_id = u /\ r.tutorial_id = t}

\* result[0] of a select that returned exactly the rows `rows` (ids are unique).
First(rows) == CHOOSE r \in rows : \A q \in rows : r.id <= q.id

\* serial primary key: the table's next id, then advance the sequence.
NextId(table) == seq[table]
Advance(table) == [seq EXCEPT ![table] = @ + 1]

ErrUserMissing == "User with id N does not exist"
ErrChallengeMissing == "Challenge with id N does not exist"
ErrNotActive == "Challenge is not currently active"
ErrAlreadyParticipated == "User has already participated in this challenge"
ErrNotParticipated == "User has not participated in this challenge"
ErrUserNotFound == "User not found"
ErrLimit == "Daily AI query limit exceeded"
ErrEmailTaken == "User with this email already exists"
ErrForeignKey == "violates foreign key constraint"
ErrViolatesUnique == "violates unique constraint"

CertificateUrl(u, c) == <<"https://certificates.devchallenge.com/challenge-", c, "-user-", u, ".pdf">>

(***************************************************************************)
(* auth.ts: createUser (register).                                         *)
(***************************************************************************)
CreateUser(e) ==
    /\ seq.users \in UserIds
    /\ IF UserByEmail(e) # {}
         THEN /\ ret' = [op |-> "createUser", email |-> e, err |-> ErrEmailTaken]
              /\ UNCHANGED <<users, seq>>
         ELSE /\ users' = users \cup {[id |-> NextId("users"), email |-> e,
                                       subscription_plan |-> "free",
                                       subscription_expires_at |-> Null,
                                       ai_queries_used_today |-> 0]}
              /\ seq' = Advance("users")
              /\ ret' = [op |-> "createUser", email |-> e, err |-> "",
                         id |-> NextId("users")]
    /\ UNCHANGED other
    /\ UNCHANGED <<now, challenges, userPoints, certificates, tutorials,
                   userLikes, chatMessages>>

(***************************************************************************)
(* challenges.ts: createChallenge, participateInChallenge, issueCertificate*)
(***************************************************************************)
CreateChallenge(s, e, p) ==
    /\ seq.challenges \in ChallengeIds
    /\ challenges' = challenges \cup {[id |-> NextId("challenges"), is_active |-> TRUE,
                                        start_date |-> s, end_date |-> e,
                                        points_reward |-> p]}
    /\ seq' = Advance("challenges")
    /\ ret' = [op |-> "createChallenge", err |-> "", id |-> NextId("challenges")]
    /\ UNCHANGED other
    /\ UNCHANGED <<now, users, userPoints, certificates, tutorials, userLikes,
                   chatMessages>>

\* Mutant of CurrentlyActive: the window's bounds taken as exclusive.
CurrentlyActiveExclusive(ch, t) ==
    ~(~ch.is_active \/ ch.start_date >= t \/ ch.end_date <= t)

\* The negation of the rejection test of participateInChallenge.
CurrentlyActive(ch, t) ==
    ~(~ch.is_active \/ ch.start_date > t \/ ch.end_date < t)

\* Mutant of ExistingParticipation: the lookup finds nothing.
ExistingParticipationNone(u, c) == {}

ExistingParticipation(u, c) == PointsOf(u, c)

ParticipateInChallenge(u, c) ==
    LET op == [op |-> "participateInChallenge", user |-> u, challenge |-> c]
        fail(msg) == /\ ret' = op @@ [err |-> msg]
                     /\ UNCHANGED <<userPoints, seq>>
    IN
    /\ IF UserById(u) = {} THEN fail(ErrUserMissing)
       ELSE IF ChallengeById(c) = {} THEN fail(ErrChallengeMissing)
       ELSE LET challengeData == First(ChallengeById(c)) IN
            IF ~CurrentlyActive(challengeData, now) THEN fail(ErrNotActive)
            ELSE IF ExistingParticipation(u, c) # {} THEN fail(ErrAlreadyParticipated)
            ELSE /\ userPoints' = userPoints \cup
                        {[id |-> NextId("user_points"), user_id |-> u, challenge_id |-> c,
                          points_earned |-> challengeData.points_reward]}
                 /\ seq' = Advance("user_points")
                 /\ ret' = op @@ [err |-> "", success |-> TRUE,
                                  pointsEarned |-> challengeData.points_reward]
    /\ UNCHANGED other
    /\ UNCHANGED <<now, users, challenges, certificates, tutorials, userLikes,
                   chatMessages>>

\* Mutant of Participation: the participation check always passes.
ParticipationAny(u, c) == userPoints

\* issueCertificate's "Verify user participated in the challenge" select.
Participation(u, c) == PointsOf(u, c)

\* Mutant of ExistingCertificate: the existing certificate is never found.
ExistingCertificateNone(u, c) == {}

\* issueCertificate's "Check if certificate already exists" select.
ExistingCertificate(u, c) == CertificatesOf(u, c)

IssueCertificate(u, c) ==
    LET op == [op |-> "issueCertificate", user |-> u, challenge |-> c]
        fail(msg) == /\ ret' = op @@ [err |-> msg]
                     /\ UNCHANGED <<certificates, seq>>
    IN
    /\ IF UserById(u) = {} THEN fail(ErrUserMissing)
       ELSE IF ChallengeById(c) = {} THEN fail(ErrChallengeMissing)
       ELSE IF Participation(u, c) = {} THEN fail(ErrNotParticipated)
       ELSE IF ExistingCertificate(u, c) # {}
            THEN /\ ret' = op @@ [err |-> "", cert |-> First(ExistingCertificate(u, c))]
                 /\ UNCHANGED <<certificates, seq>>
       ELSE LET row == [id |-> NextId("certificates"), user_id |-> u, challenge_id |-> c,
                        certificate_url |-> CertificateUrl(u, c)] IN
            /\ certificates' = certificates \cup {row}
            /\ seq' = Advance("certificates")
            /\ ret' = op @@ [err |-> "", cert |-> row]
    /\ UNCHANGED other
    /\ UNCHANGED <<now, users, challenges, userPoints, tutorials, userLikes,
                   chatMessages>>

\* The wall clock moves on between calls.
Tick ==
    /\ now < MaxNow
    /\ now' = now + 1
    /\ UNCHANGED other
    /\ UNCHANGED <<users, challenges, userPoints, certificates, tutorials, userLikes,
                   chatMessages, seq, ret>>

SeedUser(i, e, plan, exp, used) ==
    [id |-> i, email |-> e, subscription_plan |-> plan,
     subscription_expires_at |-> exp, ai_queries_used_today |-> used]

InitSeq == [users |-> 2, challenges |-> 2, user_points |-> 1, certificates |-> 1,
            tutorials |-> 2, user_likes |-> 1, chat_messages |-> 1,
            roadmaps |-> 1, user_progress |-> 1, projects |-> 1, resources |-> 1,
            user_downloads |-> 1]

\* Nothing stored in the tables of the later groups, no call in flight.
OtherEmpty ==
    /\ roadmaps = {}
    /\ userProgress = {}
    /\ projects = {}
    /\ resources = {}
    /\ userDownloads = {}
    /\ calls = {}

\* One registered user and one stored challenge (active or switched off) whose
\* window opens after the first instant and closes before the last; everything
\* else is created through the handlers.
InitChallenge ==
    /\ now = 1
    /\ users = {SeedUser(1, "a@example.com", "free", Null, 0)}
    /\ \E a \in BOOLEAN :
         challenges = {[id |-> 1, is_active |-> a, start_date |-> 2, end_date |-> 3,
                        points_reward |-> 100]}
    /\ userPoints = {}
    /\ certificates = {}
    /\ tutorials = {}
    /\ userLikes = {}
    /\ chatMessages = {}
    /\ seq = InitSeq
    /\ ret = NoRet
    /\ OtherEmpty

NextChallenge ==
    \/ \E e \in Emails : CreateUser(e)
    \/ \E s \in StartDates, e \in EndDates, p \in Rewards : CreateChallenge(s, e, p)
    \/ \E u \in UserIds, c \in ChallengeIds : ParticipateInChallenge(u, c)
    \/ \E u \in UserIds, c \in ChallengeIds : IssueCertificate(u, c)
    \/ Tick

SpecChallenge == InitChallenge /\ [][NextChallenge]_vars

(***************************************************************************)
(* Slug generation of createTutorial and createProject.  A string is the   *)
(* sequence of its characters.                                             *)
(***************************************************************************)
UpperCaseLetters ==
    <<"A", "B", "C", "D", "E", "F", "G", "H", "I", "J", "K", "L", "M",
      "N", "O", "P", "Q", "R", "S", "T", "U", "V", "W", "X", "Y", "Z">>

LowerCaseLetters ==
    <<"a", "b", "c", "d", "e", "f", "g", "h", "i", "j", "k", "l", "m",
      "n", "o", "p", "q", "r", "s", "t", "u", "v", "w", "x", "y", "z">>

Digits == {"0", "1", "2", "3", "4", "5", "6", "7", "8", "9"}

\* What \\s matches, as far as the titles of the model go.
Whitespace == {" ", "\t"}

Range(s) == {s[i] : i \in DOMAIN s}

\* String.prototype.toLowerCase.
ToLowerCase(s) ==
    [i \in DOMAIN s |->
       IF \E k \in DOMAIN UpperCaseLetters : UpperCaseLetters[k] = s[i]
         THEN LowerCaseLetters[CHOOSE k \in DOMAIN UpperCaseLetters :
                                 UpperCaseLetters[k] = s[i]]
         ELSE s[i]]

\* The complement of the class [^a-z0-9\\s-].
KeptInSlug(c) == c \in Range(LowerCaseLetters) \cup Digits \cup Whitespace \cup {"-"}

\* .replace(/[^a-z0-9\\s-]/g, '').
RemoveSpecial(s) == SelectSeq(s, KeptInSlug)

RECURSIVE ReplaceRuns(_, _)
\* .replace(/X+/g, '-'): every maximal run of characters of class X becomes
\* one hyphen.
ReplaceRuns(s, class) ==
    IF s = <<>> THEN <<>>
    ELSE IF Head(s) \in class
      THEN IF Len(s) > 1 /\ s[2] \in class
             THEN ReplaceRuns(Tail(s), class)
             ELSE <<"-">> \o ReplaceRuns(Tail(s), class)
    ELSE <<Head(s)>> \o ReplaceRuns(Tail(s), class)

RECURSIVE TrimStart(_, _)
TrimStart(s, class) ==
    IF s # <<>> /\ Head(s) \in class THEN TrimStart(Tail(s), class) ELSE s

RECURSIVE TrimEnd(_, _)
TrimEnd(s, class) ==
    IF s # <<>> /\ s[Len(s)] \in class THEN TrimEnd(SubSeq(s, 1, Len(s) - 1), class)
    ELSE s

\* String.prototype.trim: white space goes from both ends, nothing else.
Trim(s) == TrimEnd(TrimStart(s, Whitespace), Whitespace)

\* The slug expression of createTutorial and createProject.
GenerateSlug(title) ==
    Trim(ReplaceRuns(ReplaceRuns(RemoveSpecial(ToLowerCase(title)), Whitespace), {"-"}))

\* Titles: the schema asks for at least MinTitleLen characters; the model
\* takes every title of MinTitleLen..MaxTitleLen characters over an upper-case
\* and a lower-case letter, a digit, the space, the hyphen and a special
\* character, and the title of the unit test.
MinTitleLen == 5

TitleChars == {"R", "e", "1", " ", "-", "!"}

ExampleTitle ==
    <<"A", "d", "v", "a", "n", "c", "e", "d", " ", "R", "e", "a", "c", "t", ":", " ", "H", "o", "o", "k", "s", " ", "&", " ", "C", "o", "n", "t", "e", "x", "t", " ", "A", "P", "I", "!">>

Titles ==
    UNION {[1..n -> TitleChars] : n \in MinTitleLen..MaxTitleLen} \cup {ExampleTitle}

\* The titles of the rows that other groups of handlers work on.
SeedTitle == <<"L", "e", "a", "r", "n", " ", "R", "e", "a", "c", "t", " ", "B", "a", "s", "i", "c", "s">>
LikeTitles == {<<"R", "e", "a", "c", "t", " ", "H", "o", "o", "k", "s">>}

(***************************************************************************)
(* tutorials.ts: createTutorial, likeTutorial.                             *)
(***************************************************************************)
SeedLikes == {0, 2}

\* The unique constraint on tutorials.slug (and projects.slug), checked by the
\* store on insert.
SlugIsFree(rows, slug) == {r \in rows : r.slug = slug} = {}

CreateTutorial(title) ==
    LET slug == GenerateSlug(title) IN
    /\ seq.tutorials \in TutorialIds
    /\ IF ~SlugIsFree(tutorials, slug)
         THEN /\ ret' = [op |-> "createTutorial", title |-> title,
                         err |-> ErrViolatesUnique]
              /\ UNCHANGED <<tutorials, seq>>
         ELSE /\ tutorials' = tutorials \cup {[id |-> NextId("tutorials"), slug |-> slug,
                                                 likes_count |-> 0]}
              /\ seq' = Advance("tutorials")
              /\ ret' = [op |-> "createTutorial", title |-> title, err |-> "",
                         id |-> NextId("tutorials"), slug |-> slug]
    /\ UNCHANGED other
    /\ UNCHANGED <<now, users, challenges, userPoints, certificates, userLikes,
                   chatMessages>>

\* Mutant of AddToLikesCount: the counter only ever goes up.
AddToLikesCountUp(tuts, t, delta) ==
    {IF r.id = t THEN [r EXCEPT !.likes_count = @ + 1] ELSE r : r \in tuts}

\* UPDATE tutorials SET likes_count = likes_count + delta WHERE id = t.
AddToLikesCount(tuts, t, delta) ==
    {IF r.id = t THEN [r EXCEPT !.likes_count = @ + delta] ELSE r : r \in tuts}

\* DELETE FROM user_likes WHERE user_id = u AND tutorial_id = t.
RemoveLike(likes, u, t) == {r \in likes : ~(r.user_id = u /\ r.tutorial_id = t)}

\* The whole of likeTutorial on a store (likes, tuts, usrs) whose user_likes
\* sequence stands at `next`: the store afterwards and the value returned.
\* The insert is refused by the foreign keys of user_likes when the user or the
\* tutorial does not exist.
LikeOutcome(likes, tuts, usrs, next, t, u) ==
    LET existingLike == {r \in likes : r.user_id = u /\ r.tutorial_id = t}
        op == [op |-> "likeTutorial", tutorial |-> t, user |-> u]
    IN
    IF existingLike # {}
      THEN LET tuts2 == AddToLikesCount(tuts, t, -1) IN
           [userLikes |-> RemoveLike(likes, u, t), tutorials |-> tuts2, next |-> next,
            ret |-> op @@ [err |-> "", liked |-> FALSE,
                           likesCount |-> First({r \in tuts2 : r.id = t}).likes_count]]
    ELSE IF {r \in usrs : r.id = u} = {} \/ {r \in tuts : r.id = t} = {}
      THEN [userLikes |-> likes, tutorials |-> tuts, next |-> next,
            ret |-> op @@ [err |-> ErrForeignKey]]
    ELSE LET tuts2 == AddToLikesCount(tuts, t, 1) IN
         [userLikes |-> likes \cup {[id |-> next, user_id |-> u, tutorial_id |-> t]},
          tutorials |-> tuts2, next |-> next + 1,
          ret |-> op @@ [err |-> "", liked |-> TRUE,
                         likesCount |-> First({r \in tuts2 : r.id = t}).likes_count]]

LikeTutorial(t, u) ==
    LET o == LikeOutcome(userLikes, tutorials, users, seq.user_likes, t, u) IN
    /\ o.next <= MaxLikeRows + 1
    /\ userLikes' = o.userLikes
    /\ tutorials' = o.tutorials
    /\ seq' = [seq EXCEPT !.user_likes = o.next]
    /\ ret' = o.ret
    /\ UNCHANGED other
    /\ UNCHANGED <<now, users, challenges, userPoints, certificates, chatMessages>>

\* One registered user and one stored tutorial that already carries some likes
\* of users outside the model; nobody in the model has liked anything yet.
InitLike ==
    /\ now = 1
    /\ users = {SeedUser(1, "a@example.com", "free", Null, 0)}
    /\ challenges = {}
    /\ userPoints = {}
    /\ certificates = {}
    /\ \E n \in SeedLikes : tutorials = {[id |-> 1, slug |-> GenerateSlug(SeedTitle), likes_count |-> n]}
    /\ userLikes = {}
    /\ chatMessages = {}
    /\ seq = InitSeq
    /\ ret = NoRet
    /\ OtherEmpty

NextLike ==
    \/ \E e \in Emails : CreateUser(e)
    \/ \E title \in LikeTitles : CreateTutorial(title)
    \/ \E t \in TutorialIds, u \in UserIds : LikeTutorial(t, u)

SpecLike == InitLike /\ [][NextLike]_vars

(***************************************************************************)
(* ai_tutor.ts: checkAIUsageLimit, sendMessage.                            *)
(***************************************************************************)
ContextTypes == {"tutorial", "general"}
SeedUsed == {0, 8, 10, 98, 100}
\* (plan, expiry) of stored users: free, lifetime pro, pro with a date.
SeedPlans == {<<"free", Null>>, <<"pro", Null>>, <<"pro", 1>>, <<"pro", 3>>}

\* isPro of checkAIUsageLimit: a null expiry is falsy in the && chain.
IsPro(user, t) ==
    /\ user.subscription_plan = "pro"
    /\ user.subscription_expires_at # Null
    /\ user.subscription_expires_at > t

DailyLimit(user, t) == IF IsPro(user, t) THEN ProLimit ELSE FreeLimit

\* The object checkAIUsageLimit returns for a stored user.
UsageCheck(user, t) ==
    [canUse |-> user.ai_queries_used_today < DailyLimit(user, t),
     queriesUsed |-> user.ai_queries_used_today,
     limit |-> DailyLimit(user, t)]

CheckAIUsageLimit(u) ==
    /\ ret' = IF UserById(u) = {}
                THEN [op |-> "checkAIUsageLimit", user |-> u, err |-> ErrUserNotFound]
                ELSE [op |-> "checkAIUsageLimit", user |-> u, err |-> ""]
                       @@ UsageCheck(First(UserById(u)), now)
    /\ UNCHANGED other
    /\ UNCHANGED <<now, users, challenges, userPoints, certificates, tutorials,
                   userLikes, chatMessages, seq>>

AiResponse(ctx) ==
    IF ctx = "tutorial" THEN "Based on the tutorial content"
    ELSE IF ctx = "project" THEN "For this project"
    ELSE "I'm here to help with your coding questions"

SendMessage(u, ctx) ==
    LET op == [op |-> "sendMessage", user |-> u]
        fail(msg) == /\ ret' = op @@ [err |-> msg]
                     /\ UNCHANGED <<users, chatMessages, seq>>
    IN
    /\ seq.chat_messages <= MaxSends
    /\ IF UserById(u) = {} THEN fail(ErrUserNotFound)
       ELSE LET user == First(UserById(u)) IN
            IF ~UsageCheck(user, now).canUse THEN fail(ErrLimit)
            ELSE LET row == [id |-> NextId("chat_messages"), user_id |-> u,
                             context_type |-> ctx, response |-> AiResponse(ctx)] IN
                 /\ chatMessages' = chatMessages \cup {row}
                 /\ seq' = Advance("chat_messages")
                 /\ users' = (users \ {user}) \cup
                       {[user EXCEPT !.ai_queries_used_today = user.ai_queries_used_today + 1]}
                 /\ ret' = op @@ [err |-> "", message |-> row]
    /\ UNCHANGED other
    /\ UNCHANGED <<now, challenges, userPoints, certificates, tutorials, userLikes>>

\* One stored user on any plan with any counter near a ceiling; a second user
\* can register.
InitAI ==
    /\ now = 1
    /\ \E pe \in SeedPlans, n \in SeedUsed :
         users = {SeedUser(1, "a@example.com", pe[1], pe[2], n)}
    /\ challenges = {}
    /\ userPoints = {}
    /\ certificates = {}
    /\ tutorials = {}
    /\ userLikes = {}
    /\ chatMessages = {}
    /\ seq = InitSeq
    /\ ret = NoRet
    /\ OtherEmpty

NextAI ==
    \/ \E e \in Emails : CreateUser(e)
    \/ \E u \in UserIds : CheckAIUsageLimit(u)
    \/ \E u \in UserIds, ctx \in ContextTypes : SendMessage(u, ctx)
    \/ Tick

SpecAI == InitAI /\ [][NextAI]_vars

(***************************************************************************)
(* subscriptions.ts: createSubscription, cancelSubscription, checkProAccess*)
(***************************************************************************)
\* Mutant of ExpiresAt: every duration is billed as a month.
ExpiresAtMonthOnly(t, duration) == t + MonthTicks

\* expiresAt of createSubscription: the call time moved on by one month
\* (setMonth + 1) or one year (setFullYear + 1).
ExpiresAt(t, duration) ==
    IF duration = "monthly" THEN t + MonthTicks
    ELSE IF duration = "annual" THEN t + YearTicks
    ELSE t

\* UPDATE users SET plan, expires WHERE id = u (no row when u is unknown).
SetSubscription(u, plan, exp) ==
    {IF r.id = u THEN [r EXCEPT !.subscription_plan = plan,
                                !.subscription_expires_at = exp]
                 ELSE r : r \in users}

CreateSubscription(u, duration) ==
    /\ users' = SetSubscription(u, "pro", ExpiresAt(now, duration))
    /\ ret' = [op |-> "createSubscription", user |-> u, err |-> "", success |-> TRUE,
               subscriptionId |-> <<"sub_", u, now>>]
    /\ UNCHANGED other
    /\ UNCHANGED <<now, challenges, userPoints, certificates, tutorials, userLikes,
                   chatMessages, seq>>

\* Mutant of CancelSubscription: the downgrade also starts the day's count anew.
CancelSubscriptionResetting(u) ==
    /\ users' = {IF r.id = u THEN [r EXCEPT !.subscription_plan = "free",
                                            !.subscription_expires_at = Null,
                                            !.ai_queries_used_today = 0]
                              ELSE r : r \in users}
    /\ ret' = [op |-> "cancelSubscription", user |-> u, err |-> "", success |-> TRUE]
    /\ UNCHANGED other
    /\ UNCHANGED <<now, challenges, userPoints, certificates, tutorials, userLikes,
                   chatMessages, seq>>

CancelSubscription(u) ==
    /\ users' = SetSubscription(u, "free", Null)
    /\ ret' = [op |-> "cancelSubscription", user |-> u, err |-> "", success |-> TRUE]
    /\ UNCHANGED other
    /\ UNCHANGED <<now, challenges, userPoints, certificates, tutorials, userLikes,
                   chatMessages, seq>>

\* Mutant of HasProAccess: an expiry equal to the clock still counts.
HasProAccessInclusive(user, t) ==
    /\ user.subscription_plan = "pro"
    /\ (user.subscription_expires_at = Null \/ user.subscription_expires_at >= t)

\* hasProAccess of checkProAccess.
HasProAccess(user, t) ==
    /\ user.subscription_plan = "pro"
    /\ (user.subscription_expires_at = Null \/ user.subscription_expires_at > t)

\* Mutant of CheckProAccess: an expired subscription is downgraded by the check.
CheckProAccessDowngrading(u) ==
    /\ ret' = IF UserById(u) = {}
                THEN [op |-> "checkProAccess", user |-> u, err |-> ErrUserNotFound]
                ELSE [op |-> "checkProAccess", user |-> u, err |-> "",
                      hasProAccess |-> HasProAccess(First(UserById(u)), now),
                      expiresAt |-> First(UserById(u)).subscription_expires_at]
    /\ users' = {IF r.id = u /\ ~HasProAccess(r, now)
                   THEN [r EXCEPT !.subscription_plan = "free",
                                  !.subscription_expires_at = Null]
                   ELSE r : r \in users}
    /\ UNCHANGED other
    /\ UNCHANGED <<now, challenges, userPoints, certificates, tutorials,
                   userLikes, chatMessages, seq>>

CheckProAccess(u) ==
    /\ ret' = IF UserById(u) = {}
                THEN [op |-> "checkProAccess", user |-> u, err |-> ErrUserNotFound]
                ELSE [op |-> "checkProAccess", user |-> u, err |-> "",
                      hasProAccess |-> HasProAccess(First(UserById(u)), now),
                      expiresAt |-> First(UserById(u)).subscription_expires_at]
    /\ UNCHANGED other
    /\ UNCHANGED <<now, users, challenges, userPoints, certificates, tutorials,
                   userLikes, chatMessages, seq>>

\* One stored user on any plan; a second user can register.
InitSub ==
    /\ now = 1
    /\ \E pe \in SeedPlans : users = {SeedUser(1, "a@example.com", pe[1], pe[2], 0)}
    /\ challenges = {}
    /\ userPoints = {}
    /\ certificates = {}
    /\ tutorials = {}
    /\ userLikes = {}
    /\ chatMessages = {}
    /\ seq = InitSeq
    /\ ret = NoRet
    /\ OtherEmpty

NextSub ==
    \/ \E e \in Emails : CreateUser(e)
    \/ \E u \in UserIds, d \in Durations : CreateSubscription(u, d)
    \/ \E u \in UserIds : CancelSubscription(u)
    \/ \E u \in UserIds : CheckProAccess(u)
    \/ Tick

SpecSub == InitSub /\ [][NextSub]_vars

(***************************************************************************)
(* roadmaps.ts: updateUserProgress.                                        *)
(***************************************************************************)
RoadmapIds == {1, 2}
ProgressUserIds == {1, 2, 3}

\* An optional property of an input object: absent when the record lacks it.
Has(input, f) == f \in DOMAIN input

\* input.f || fallback for an id or an array (neither is falsy when present).
OrElse(input, f, fallback) == IF Has(input, f) THEN input[f] ELSE fallback

\* The inputs the schema admits: tutorial_id and roadmap_id each optional,
\* a percentage, completed_nodes optional.
ProgressValues ==
    {[progress_percentage |-> 25, completed_nodes |-> <<"node-1">>],
     [progress_percentage |-> 75, completed_nodes |-> <<"node-1", "node-2">>],
     [progress_percentage |-> 100]}

ProgressInputs ==
    {v @@ t @@ r :
       v \in ProgressValues,
       t \in {<<>>} \cup {[tutorial_id |-> i] : i \in TutorialIds},
       r \in {<<>>} \cup {[roadmap_id |-> i] : i \in RoadmapIds}}

\* and(...conditions): user_id always, tutorial_id and roadmap_id only when the
\* input carries them.
ProgressConditions(row, u, input) ==
    /\ row.user_id = u
    /\ Has(input, "tutorial_id") => row.tutorial_id = input.tutorial_id
    /\ Has(input, "roadmap_id") => row.roadmap_id = input.roadmap_id

\* The foreign keys of user_progress, checked by the store on insert.
ProgressForeignKeysHold(row) ==
    /\ row.tutorial_id # Null => TutorialById(row.tutorial_id) # {}
    /\ row.roadmap_id # Null => \E m \in roadmaps : m.id = row.roadmap_id

UpdateUserProgress(u, input) ==
    LET op == [op |-> "updateUserProgress", user |-> u, input |-> input]
        existingProgress == {r \in userProgress : ProgressConditions(r, u, input)}
        updated(r) == [r EXCEPT !.progress_percentage = input.progress_percentage,
                                !.completed_nodes = OrElse(input, "completed_nodes", <<>>)]
        row == [id |-> NextId("user_progress"), user_id |-> u,
                tutorial_id |-> OrElse(input, "tutorial_id", Null),
                roadmap_id |-> OrElse(input, "roadmap_id", Null),
                progress_percentage |-> input.progress_percentage,
                completed_nodes |-> OrElse(input, "completed_nodes", <<>>)]
    IN
    /\ IF UserById(u) = {}
         THEN /\ ret' = op @@ [err |-> ErrUserNotFound]
              /\ UNCHANGED <<userProgress, seq>>
       ELSE IF existingProgress # {}
         THEN /\ userProgress' = {IF r \in existingProgress THEN updated(r) ELSE r :
                                    r \in userProgress}
              /\ ret' = op @@ [err |-> "", row |-> updated(First(existingProgress))]
              /\ UNCHANGED seq
       ELSE IF ~ProgressForeignKeysHold(row)
         THEN /\ ret' = op @@ [err |-> ErrForeignKey]
              /\ UNCHANGED <<userProgress, seq>>
       ELSE /\ seq.user_progress <= MaxProgressRows
            /\ userProgress' = userProgress \cup {row}
            /\ seq' = Advance("user_progress")
            /\ ret' = op @@ [err |-> "", row |-> row]
    /\ UNCHANGED <<now, users, challenges, userPoints, certificates, tutorials,
                   userLikes, chatMessages, roadmaps, projects, resources,
                   userDownloads, calls>>

\* Two registered users, one tutorial and one roadmap; no progress yet.
InitProgress ==
    /\ now = 1
    /\ users = {SeedUser(1, "a@example.com", "free", Null, 0),
                SeedUser(2, "b@example.com", "free", Null, 0)}
    /\ challenges = {}
    /\ userPoints = {}
    /\ certificates = {}
    /\ tutorials = {[id |-> 1, slug |-> GenerateSlug(SeedTitle), likes_count |-> 0]}
    /\ userLikes = {}
    /\ chatMessages = {}
    /\ seq = InitSeq
    /\ ret = NoRet
    /\ roadmaps = {[id |-> 1]}
    /\ userProgress = {}
    /\ projects = {}
    /\ resources = {}
    /\ userDownloads = {}
    /\ calls = {}

NextProgress ==
    \E u \in ProgressUserIds, input \in ProgressInputs : UpdateUserProgress(u, input)

SpecProgress == InitProgress /\ [][NextProgress]_vars

(***************************************************************************)
(* challenges.ts: getLeaderboard, getUserRank.  The rows of user_points    *)
(* carry no earned_at here, so the weekly sums of the two queries are not  *)
(* part of the results.                                                    *)
(***************************************************************************)
\* .limit(100) of getLeaderboard.
LeaderboardLimit == 100

BoardUserIds == {1, 2, 3}
BoardChallengeIds == {1, 2, 3}
BoardFirstRewards == {50, 100}

RECURSIVE SumPoints(_)
\* The sum of points_earned over a set of user_points rows.
SumPoints(rows) ==
    IF rows = {} THEN 0
    ELSE LET r == CHOOSE x \in rows : TRUE IN r.points_earned + SumPoints(rows \ {r})

PointRowsOf(u) == {r \in userPoints : r.user_id = u}

\* SUM(points_earned) of a user's rows: SQL NULL over no rows.
SumOrNull(u) == IF PointRowsOf(u) = {} THEN Null ELSE SumPoints(PointRowsOf(u))

\* COALESCE(x, 0) and the handlers' `x || 0`.
Coalesce(x) == IF x = Null THEN 0 ELSE x

\* Mutant of Badges: the thresholds themselves do not count.
BadgesExclusive(total) ==
    IF total > 1000 THEN <<"high_achiever">>
    ELSE IF total > 500 THEN <<"achiever">>
    ELSE IF total > 100 THEN <<"participant">>
    ELSE <<>>

\* The badge list of a leaderboard entry.
Badges(total) ==
    IF total >= 1000 THEN <<"high_achiever">>
    ELSE IF total >= 500 THEN <<"achiever">>
    ELSE IF total >= 100 THEN <<"participant">>
    ELSE <<>>

\* HAVING SUM(points_earned) > 0 (NULL > 0 is not true).
Having(total) == total # Null /\ total > 0

\* Mutant of Ahead: the order is ascending.
AheadAscending(g, rows) == Cardinality({h \in rows : h.total_points < g.total_points})

\* The number of rows that ORDER BY SUM(points_earned) DESC puts before g for
\* certain: the rows with a larger sum.
Ahead(g, rows) == Cardinality({h \in rows : h.total_points > g.total_points})

\* The rows the order leaves level with g (g included); the store returns
\* them in any order.
Level(g, rows) == Cardinality({h \in rows : h.total_points = g.total_points})

RECURSIVE Fill(_, _, _)
\* Every way to fill positions i..m of a result from the placed rows, a row
\* going anywhere within the block of its sum.
Fill(i, m, placed) ==
    IF i > m THEN {<<>>}
    ELSE {<<p.row>> \o t :
            p \in {q \in placed : q.ahead < i /\ i <= q.ahead + q.level},
            t \in Fill(i + 1, m, placed)}

\* The row sequences the grouped, filtered, ordered and limited query can
\* return: each row within the block of its sum, no row twice, cut at the
\* limit.
LeaderboardResults ==
    LET grouped == {[user_id |-> r.id, total_points |-> SumOrNull(r.id)] : r \in users}
        kept == {g \in grouped : Having(g.total_points)}
        placed == {[row |-> g, ahead |-> Ahead(g, kept), level |-> Level(g, kept)] :
                     g \in kept}
        n == Cardinality(kept)
        m == IF n <= LeaderboardLimit THEN n ELSE LeaderboardLimit
    IN {s \in Fill(1, m, placed) :
          \A i \in 1..m, j \in 1..m : i # j => s[i].user_id # s[j].user_id}

\* Mutant of LeaderboardEntries: the rank is the zero-based index.
LeaderboardEntriesZeroBased(results) ==
    [index \in 1..Len(results) |->
       [id |-> index,
        user_id |-> results[index].user_id,
        total_points |-> Coalesce(results[index].total_points),
        rank |-> index - 1,
        badges |-> Badges(results[index].total_points)]]

\* results.map((result, index) => ...).
LeaderboardEntries(results) ==
    [index \in 1..Len(results) |->
       [id |-> index,
        user_id |-> results[index].user_id,
        total_points |-> Coalesce(results[index].total_points),
        rank |-> index,
        badges |-> Badges(results[index].total_points)]]

GetLeaderboard ==
    /\ \E results \in LeaderboardResults :
         ret' = [op |-> "getLeaderboard", err |-> "",
                 entries |-> LeaderboardEntries(results)]
    /\ UNCHANGED <<now, users, challenges, userPoints, certificates, tutorials,
                   userLikes, chatMessages, seq, other>>

\* Mutant of HigherUsers: users level with the caller count as ahead.
HigherUsersOrLevel(totalPoints) ==
    {r \in users : Coalesce(SumOrNull(r.id)) >= totalPoints}

\* The subquery higher_users of getUserRank.
HigherUsers(totalPoints) ==
    {r \in users : Coalesce(SumOrNull(r.id)) > totalPoints}

GetUserRank(u) ==
    LET op == [op |-> "getUserRank", user |-> u]
        totalPoints == Coalesce(SumOrNull(u))
    IN
    /\ ret' = IF UserById(u) = {}
                THEN op @@ [err |-> ErrUserMissing]
                ELSE op @@ [err |-> "", totalPoints |-> totalPoints,
                            rank |-> Cardinality(HigherUsers(totalPoints)) + 1]
    /\ UNCHANGED <<now, users, challenges, userPoints, certificates, tutorials,
                   userLikes, chatMessages, seq, other>>

\* Two registered users and three running challenges worth 50 or 100, 450 and
\* 500 points; nobody has taken part yet.
InitBoard ==
    /\ now = 1
    /\ users = {SeedUser(1, "a@example.com", "free", Null, 0),
                SeedUser(2, "b@example.com", "free", Null, 0)}
    /\ \E p \in BoardFirstRewards :
         challenges = {[id |-> 1, is_active |-> TRUE, start_date |-> 1, end_date |-> 2,
                        points_reward |-> p],
                       [id |-> 2, is_active |-> TRUE, start_date |-> 1, end_date |-> 2,
                        points_reward |-> 450],
                       [id |-> 3, is_active |-> TRUE, start_date |-> 1, end_date |-> 2,
                        points_reward |-> 500]}
    /\ userPoints = {}
    /\ certificates = {}
    /\ tutorials = {}
    /\ userLikes = {}
    /\ chatMessages = {}
    /\ seq = [InitSeq EXCEPT !.users = 3, !.challenges = 4]
    /\ ret = NoRet
    /\ OtherEmpty

NextBoard ==
    \/ \E u \in BoardUserIds, c \in BoardChallengeIds : ParticipateInChallenge(u, c)
    \/ GetLeaderboard
    \/ \E u \in BoardUserIds : GetUserRank(u)

SpecBoard == InitBoard /\ [][NextBoard]_vars

\* The same handlers on a platform with a crowd: one more scoring user than
\* the leaderboard holds.  Each user of the crowd took part in a past challenge
\* of their own (worth 2000 points and their id, so no two are level); users
\* 1 and 2 have two running challenges of 100 points each before them.
CrowdIds == 3..(LeaderboardLimit + 1)
FullUserIds == {1, 2, 3, LeaderboardLimit + 2}

InitBoardFull ==
    /\ now = 1
    /\ users = {SeedUser(1, "a@example.com", "free", Null, 0),
                SeedUser(2, "b@example.com", "free", Null, 0)}
               \cup {SeedUser(k, ToString(k), "free", Null, 0) : k \in CrowdIds}
    /\ challenges = {[id |-> c, is_active |-> TRUE, start_date |-> 1, end_date |-> 2,
                      points_reward |-> 100] : c \in ChallengeIds}
                    \cup {[id |-> k, is_active |-> FALSE, start_date |-> 0,
                           end_date |-> 0, points_reward |-> 2000 + k] : k \in CrowdIds}
    /\ userPoints = {[id |-> k - 2, user_id |-> k, challenge_id |-> k,
                      points_earned |-> 2000 + k] : k \in CrowdIds}
    /\ certificates = {}
    /\ tutorials = {}
    /\ userLikes = {}
    /\ chatMessages = {}
    /\ seq = [InitSeq EXCEPT !.users = LeaderboardLimit + 2,
                             !.challenges = LeaderboardLimit + 2,
                             !.user_points = LeaderboardLimit]
    /\ ret = NoRet
    /\ OtherEmpty

NextBoardFull ==
    \/ \E u \in UserIds, c \in ChallengeIds : ParticipateInChallenge(u, c)
    \/ GetLeaderboard
    \/ \E u \in FullUserIds : GetUserRank(u)

SpecBoardFull == InitBoardFull /\ [][NextBoardFull]_vars

(***************************************************************************)
(* auth.ts: createUser when calls interleave.  A call is two statements:   *)
(* the select by email, then (after hashing) the insert; other calls may   *)
(* run in between.  `calls` holds the calls that passed the select and     *)
(* have not inserted yet.                                                  *)
(***************************************************************************)
Callers == {1, 2, 3}

\* Mutant of EmailIsFree: the users table has no unique constraint on email.
EmailIsFreeAlways(rows, e) == TRUE

\* The unique constraint on users.email, checked by the store on insert.
EmailIsFree(rows, e) == {r \in rows : r.email = e} = {}

\* First statement of createUser: the existence check.
CreateUserSelect(p, e) ==
    /\ \A c \in calls : c.caller # p
    /\ IF UserByEmail(e) # {}
         THEN /\ ret' = [op |-> "createUser", email |-> e, err |-> ErrEmailTaken]
              /\ UNCHANGED calls
         ELSE /\ calls' = calls \cup {[caller |-> p, email |-> e]}
              /\ UNCHANGED ret
    /\ UNCHANGED <<now, users, challenges, userPoints, certificates, tutorials,
                   userLikes, chatMessages, seq, roadmaps, userProgress, projects,
                   resources, userDownloads>>

\* Second statement of createUser: the insert, refused by the store when the
\* email has been taken in the meantime.
CreateUserInsert(p) ==
    /\ \E c \in calls :
         /\ c.caller = p
         /\ calls' = calls \ {c}
         /\ IF ~EmailIsFree(users, c.email)
              THEN /\ ret' = [op |-> "createUser", email |-> c.email,
                              err |-> ErrViolatesUnique]
                   /\ UNCHANGED <<users, seq>>
              ELSE /\ seq.users \in UserIds
                   /\ users' = users \cup {[id |-> NextId("users"), email |-> c.email,
                                             subscription_plan |-> "free",
                                             subscription_expires_at |-> Null,
                                             ai_queries_used_today |-> 0]}
                   /\ seq' = Advance("users")
                   /\ ret' = [op |-> "createUser", email |-> c.email, err |-> "",
                              id |-> NextId("users")]
    /\ UNCHANGED <<now, challenges, userPoints, certificates, tutorials, userLikes,
                   chatMessages, roadmaps, userProgress, projects, resources,
                   userDownloads>>

\* An empty users table and three clients that register again and again.
InitRegister ==
    /\ now = 1
    /\ users = {}
    /\ challenges = {}
    /\ userPoints = {}
    /\ certificates = {}
    /\ tutorials = {}
    /\ userLikes = {}
    /\ chatMessages = {}
    /\ seq = [InitSeq EXCEPT !.users = 1]
    /\ ret = NoRet
    /\ OtherEmpty

NextRegister ==
    \/ \E p \in Callers, e \in Emails : CreateUserSelect(p, e)
    \/ \E p \in Callers : CreateUserInsert(p)

SpecRegister == InitRegister /\ [][NextRegister]_vars

(***************************************************************************)
(* projects.ts: createProject, downloadProject.                            *)
(***************************************************************************)
ProjectIds == {1, 2}
DownloadProjectIds == {1, 2, 3}
ErrProjectNotFound == "Project not found"

ProjectById(id) == {r \in projects : r.id = id}

CreateProject(title) ==
    LET slug == GenerateSlug(title) IN
    /\ seq.projects \in ProjectIds
    /\ IF ~SlugIsFree(projects, slug)
         THEN /\ ret' = [op |-> "createProject", title |-> title,
                         err |-> ErrViolatesUnique]
              /\ UNCHANGED <<projects, seq>>
         ELSE /\ projects' = projects \cup {[id |-> NextId("projects"), slug |-> slug,
                                               download_count |-> 0]}
              /\ seq' = Advance("projects")
              /\ ret' = [op |-> "createProject", title |-> title, err |-> "",
                         id |-> NextId("projects"), slug |-> slug]
    /\ UNCHANGED <<now, users, challenges, userPoints, certificates, tutorials,
                   userLikes, chatMessages, roadmaps, userProgress, resources,
                   userDownloads, calls>>

\* The constructed download URL of a project.
ProjectDownloadUrl(projectId) ==
    <<"https://example.com/download/project-", projectId, ".zip">>

\* Mutant of IncrementedCount: the counter is written back as it was read.
IncrementedCountStale(read) == read

\* download_count: project[0].download_count + 1.
IncrementedCount(read) == read + 1

DownloadProject(projectId, userId) ==
    LET op == [op |-> "downloadProject", project |-> projectId, user |-> userId]
        project == ProjectById(projectId)
    IN
    /\ IF project = {}
         THEN /\ ret' = op @@ [err |-> ErrProjectNotFound]
              /\ UNCHANGED <<userDownloads, projects, seq>>
       ELSE IF UserById(userId) = {}
         THEN /\ ret' = op @@ [err |-> ErrForeignKey]
              /\ UNCHANGED <<userDownloads, projects, seq>>
       ELSE /\ seq.user_downloads <= MaxDownloads
            /\ userDownloads' = userDownloads \cup
                   {[id |-> NextId("user_downloads"), user_id |-> userId,
                     resource_id |-> Null, project_id |-> projectId]}
            /\ seq' = Advance("user_downloads")
            /\ projects' = {IF r.id = projectId
                              THEN [r EXCEPT !.download_count =
                                      IncrementedCount(First(project).download_count)]
                              ELSE r : r \in projects}
            /\ ret' = op @@ [err |-> "", downloadUrl |-> ProjectDownloadUrl(projectId)]
    /\ UNCHANGED <<now, users, challenges, userPoints, certificates, tutorials,
                   userLikes, chatMessages, roadmaps, userProgress, resources, calls>>

(***************************************************************************)
(* resources.ts: downloadResource.  The handler's body is not among the    *)
(* sources (only its declaration and its tests are); it is modelled from   *)
(* the specification's download flow and the tests.                        *)
(***************************************************************************)
ResourceIds == {1, 2}
ResourceUrls == {"https://example.com/file.pdf", "https://example.com/kit.zip"}
ErrResourceNotFound == "Resource not found"

ResourceById(id) == {r \in resources : r.id = id}

\* Mutant of DownloadResource: the download is logged but not counted.
DownloadResourceUncounted(resourceId, userId) ==
    LET op == [op |-> "downloadResource", resource |-> resourceId, user |-> userId]
        resource == ResourceById(resourceId)
    IN
    /\ IF resource = {}
         THEN /\ ret' = op @@ [err |-> ErrResourceNotFound]
              /\ UNCHANGED <<userDownloads, seq>>
       ELSE IF UserById(userId) = {}
         THEN /\ ret' = op @@ [err |-> ErrForeignKey]
              /\ UNCHANGED <<userDownloads, seq>>
       ELSE /\ seq.user_downloads <= MaxDownloads
            /\ userDownloads' = userDownloads \cup
                   {[id |-> NextId("user_downloads"), user_id |-> userId,
                     resource_id |-> resourceId, project_id |-> Null]}
            /\ seq' = Advance("user_downloads")
            /\ ret' = op @@ [err |-> "", downloadUrl |-> First(resource).file_url]
    /\ UNCHANGED <<now, users, challenges, userPoints, certificates, tutorials,
                   userLikes, chatMessages, roadmaps, userProgress, projects,
                   resources, calls>>

DownloadResource(resourceId, userId) ==
    LET op == [op |-> "downloadResource", resource |-> resourceId, user |-> userId]
        resource == ResourceById(resourceId)
    IN
    /\ IF resource = {}
         THEN /\ ret' = op @@ [err |-> ErrResourceNotFound]
              /\ UNCHANGED <<userDownloads, resources, seq>>
       ELSE IF UserById(userId) = {}
         THEN /\ ret' = op @@ [err |-> ErrForeignKey]
              /\ UNCHANGED <<userDownloads, resources, seq>>
       ELSE /\ seq.user_downloads <= MaxDownloads
            /\ userDownloads' = userDownloads \cup
                   {[id |-> NextId("user_downloads"), user_id |-> userId,
                     resource_id |-> resourceId, project_id |-> Null]}
            /\ seq' = Advance("user_downloads")
            /\ resources' = {IF r.id = resourceId
                               THEN [r EXCEPT !.download_count = @ + 1]
                               ELSE r : r \in resources}
            /\ ret' = op @@ [err |-> "", downloadUrl |-> First(resource).file_url]
    /\ UNCHANGED <<now, users, challenges, userPoints, certificates, tutorials,
                   userLikes, chatMessages, roadmaps, userProgress, projects, calls>>

DownloadTitles == {<<"T", "o", "d", "o", " ", "A", "p", "p">>,
                   <<"B", "l", "o", "g", " ", "A", "P", "I">>}

\* One registered user (id 2 belongs to nobody), one stored resource that
\* nobody has downloaded, no project yet; two projects can be created.
InitDownload ==
    /\ now = 1
    /\ users = {SeedUser(1, "a@example.com", "free", Null, 0)}
    /\ challenges = {}
    /\ userPoints = {}
    /\ certificates = {}
    /\ tutorials = {}
    /\ userLikes = {}
    /\ chatMessages = {}
    /\ seq = [InitSeq EXCEPT !.resources = 2]
    /\ ret = NoRet
    /\ roadmaps = {}
    /\ userProgress = {}
    /\ projects = {}
    /\ \E url \in ResourceUrls :
         resources = {[id |-> 1, file_url |-> url, download_count |-> 0]}
    /\ userDownloads = {}
    /\ calls = {}

NextDownload ==
    \/ \E title \in DownloadTitles : CreateProject(title)
    \/ \E p \in DownloadProjectIds, u \in UserIds : DownloadProject(p, u)
    \/ \E r \in ResourceIds, u \in UserIds : DownloadResource(r, u)

SpecDownload == InitDownload /\ [][NextDownload]_vars

(***************************************************************************)
(* file_upload.ts: generateUploadUrl, confirmFileUpload, deleteFile.  The  *)
(* handlers touch no table; strings that are inspected character by        *)
(* character are sequences of characters.  `calls` holds the requests for  *)
(* an upload URL that clients have sent and the server has not served yet. *)
(***************************************************************************)
\* maxFileSize.
MaxFileSize == 100 * 1024 * 1024

AllowedTypes ==
    {"image/jpeg", "image/png", "image/gif", "image/webp", "application/pdf",
     "text/plain", "application/zip", "video/mp4", "video/webm"}

ErrFileSize == "File size exceeds maximum allowed size"
ErrFileType == "File type T is not allowed"
ErrFileId == "Invalid file ID format"

FilePrefix == <<"f", "i", "l", "e", "_">>

\* The inputs of the model: names of up to MaxNameLen characters, one
\* character of each kind, and the name of the unit test; sizes around the
\* limit; allowed and other types.
NameChars == {"a", "Z", "9", ".", "-", "_", " ", "&"}

ExampleFileName ==
    <<"m", "y", " ", "f", "i", "l", "e", " ", "w", "i", "t", "h", " ", "s", "p", "a", "c",
      "e", "s", " ", "&", " ", "s", "y", "m", "b", "o", "l", "s", "!", ".", "p", "d", "f">>

FileNames == UNION {[1..n -> NameChars] : n \in 0..MaxNameLen} \cup {ExampleFileName}
FileTypes == {"application/pdf", "video/webm", "application/x-executable", ""}
FileSizes == {1, MaxFileSize - 1, MaxFileSize, MaxFileSize + 1, 2 * MaxFileSize}

\* The values Math.random().toString(36).substring(2, 15) can take, the empty
\* string (for 0) among them.
RandomSuffixes == {<<>>, <<"k">>, <<"4", "z">>}

RECURSIVE DecimalDigits(_)
\* The decimal representation of a natural number, as in `${timestamp}`.
DecimalDigits(n) ==
    LET digit == <<"0", "1", "2", "3", "4", "5", "6", "7", "8", "9">>[(n % 10) + 1] IN
    IF n < 10 THEN <<digit>> ELSE DecimalDigits(n \div 10) \o <<digit>>

\* `file_${timestamp}_${randomSuffix}`.
FileId(timestamp, randomSuffix) ==
    FilePrefix \o DecimalDigits(timestamp) \o <<"_">> \o randomSuffix

\* The complement of the class [^a-zA-Z0-9.-].
SafeInUrl(c) ==
    c \in Range(LowerCaseLetters) \cup Range(UpperCaseLetters) \cup Digits \cup {".", "-"}

\* input.file_name.replace(/[^a-zA-Z0-9.-]/g, '_').
CleanFileName(name) == [i \in DOMAIN name |-> IF SafeInUrl(name[i]) THEN name[i] ELSE "_"]

\* The parts of the mock pre-signed URL, in order.
UploadUrl(fileId, cleanFileName) ==
    <<"https://s3.amazonaws.com/bucket/", fileId, "/", cleanFileName,
      "?X-Amz-Algorithm=AWS4-HMAC-SHA256&X-Amz-Credential=...&X-Amz-Date=...&X-Amz-Expires=3600&X-Amz-SignedHeaders=host&X-Amz-Signature=...">>

\* Mutant of TooLarge: a file of exactly the maximum size is refused.
TooLargeInclusive(size) == size >= MaxFileSize

\* input.file_size > maxFileSize.
TooLarge(size) == size > MaxFileSize

\* A client's request for an upload URL.
UploadRequest(name, type, size) ==
    [op |-> "generateUploadUrl", file_name |-> name, file_type |-> type,
     file_size |-> size]

UploadRequests ==
    {UploadRequest(name, type, size) :
       name \in FileNames, type \in FileTypes, size \in FileSizes}

GenerateUploadUrl(name, type, size) ==
    LET op == UploadRequest(name, type, size) IN
    /\ op \in calls
    /\ calls' = calls \ {op}
    /\ IF TooLarge(size) THEN ret' = op @@ [err |-> ErrFileSize]
       ELSE IF type \notin AllowedTypes THEN ret' = op @@ [err |-> ErrFileType]
       ELSE \E randomSuffix \in RandomSuffixes :
              LET fileId == FileId(now, randomSuffix) IN
              ret' = op @@ [err |-> "", fileId |-> fileId,
                            uploadUrl |-> UploadUrl(fileId, CleanFileName(name))]
    /\ UNCHANGED <<now, users, challenges, userPoints, certificates, tutorials,
                   userLikes, chatMessages, seq, roadmaps, userProgress, projects,
                   resources, userDownloads>>

\* Mutant of StartsWith: the prefix may sit anywhere in the string.
StartsWithAnywhere(s, prefix) ==
    \E k \in 0..Len(s) :
        Len(s) >= k + Len(prefix) /\ SubSeq(s, k + 1, k + Len(prefix)) = prefix

\* String.prototype.startsWith.
StartsWith(s, prefix) ==
    Len(s) >= Len(prefix) /\ SubSeq(s, 1, Len(prefix)) = prefix

\* !fileId || !fileId.startsWith('file_'): the empty string is falsy.
InvalidFileId(fileId) == fileId = <<>> \/ ~StartsWith(fileId, FilePrefix)

ConfirmFileUpload(fileId) ==
    /\ ret' = IF InvalidFileId(fileId)
                THEN [op |-> "confirmFileUpload", fileId |-> fileId, err |-> ErrFileId]
                ELSE [op |-> "confirmFileUpload", fileId |-> fileId, err |-> "",
                      success |-> TRUE,
                      fileUrl |-> <<"https://cdn.example.com/files/", fileId>>]
    /\ UNCHANGED <<now, users, challenges, userPoints, certificates, tutorials,
                   userLikes, chatMessages, seq, other>>

DeleteFile(fileId) ==
    /\ ret' = IF InvalidFileId(fileId)
                THEN [op |-> "deleteFile", fileId |-> fileId, err |-> ErrFileId]
                ELSE [op |-> "deleteFile", fileId |-> fileId, err |-> "",
                      success |-> TRUE]
    /\ UNCHANGED <<now, users, challenges, userPoints, certificates, tutorials,
                   userLikes, chatMessages, seq, other>>

\* The ids clients send: every id generateUploadUrl can hand out, and strings
\* that are not such ids.
FileIdInputs ==
    {FileId(t, sfx) : t \in 1..MaxNow, sfx \in RandomSuffixes}
    \cup {<<>>, <<"f", "i", "l", "e">>, FilePrefix,
          <<"F", "i", "l", "e", "_", "1">>,
          <<"x", "f", "i", "l", "e", "_", "1", "_", "k">>,
          <<"i", "n", "v", "a", "l", "i", "d", "-", "i", "d">>,
          <<"f", "i", "l", "e", "-", "1", "_", "k">>}

\* Nothing stored and one request for an upload URL on its way.
InitUploadWith(requests) ==
    /\ now = 1
    /\ users = {}
    /\ challenges = {}
    /\ userPoints = {}
    /\ certificates = {}
    /\ tutorials = {}
    /\ userLikes = {}
    /\ chatMessages = {}
    /\ seq = InitSeq
    /\ ret = NoRet
    /\ roadmaps = {}
    /\ userProgress = {}
    /\ projects = {}
    /\ resources = {}
    /\ userDownloads = {}
    /\ \E c \in requests : calls = {c}

InitUpload == InitUploadWith(UploadRequests)

NextUpload ==
    \/ \E c \in calls : GenerateUploadUrl(c.file_name, c.file_type, c.file_size)
    \/ Tick

SpecUpload == InitUpload /\ [][NextUpload]_vars

\* The upload workflow of the tests: one acceptable request, then confirm and
\* delete calls with any id, in any order, any number of times.
WorkflowRequests == {UploadRequest(ExampleFileName, "application/pdf", 1024)}

InitWorkflow == InitUploadWith(WorkflowRequests)

NextWorkflow ==
    \/ \E c \in calls : GenerateUploadUrl(c.file_name, c.file_type, c.file_size)
    \/ \E fileId \in FileIdInputs : ConfirmFileUpload(fileId)
    \/ \E fileId \in FileIdInputs : DeleteFile(fileId)
    \/ Tick

SpecWorkflow == InitWorkflow /\ [][NextWorkflow]_vars

(***************************************************************************)
(* createTutorial and createProject over every title of the model.  Each   *)
(* table holds the row of the tests' set-up; one of the two tables has     *)
(* room for one more row.                                                  *)
(***************************************************************************)
SlugSeedTitle == <<"R", "e", " ", "e", "1">>

InitSlug ==
    /\ now = 1
    /\ users = {}
    /\ challenges = {}
    /\ userPoints = {}
    /\ certificates = {}
    /\ tutorials = {[id |-> 1, slug |-> GenerateSlug(SlugSeedTitle), likes_count |-> 0]}
    /\ userLikes = {}
    /\ chatMessages = {}
    /\ \E room \in {"tutorials", "projects"} :
         seq = [InitSeq EXCEPT !.tutorials = IF room = "tutorials" THEN 2 ELSE 3,
                               !.projects = IF room = "projects" THEN 2 ELSE 3]
    /\ ret = NoRet
    /\ roadmaps = {}
    /\ userProgress = {}
    /\ projects = {[id |-> 1, slug |-> GenerateSlug(SlugSeedTitle), download_count |-> 0]}
    /\ resources = {}
    /\ userDownloads = {}
    /\ calls = {}

NextSlug ==
    \/ \E title \in Titles : CreateTutorial(title)
    \/ \E title \in Titles : CreateProject(title)

SpecSlug == InitSlug /\ [][NextSlug]_vars

(***************************************************************************)
(* challenges.ts: participateInChallenge and issueCertificate when calls   *)
(* interleave.  A call first runs its selects (user, challenge, existing   *)
(* row) and, if none of them stops it, its insert; other calls may run in  *)
(* between.  The rows the selects read are never changed or removed by     *)
(* these handlers and the clock stands still within the challenge's        *)
(* window, so the selects of one call are taken as one step.  `calls`      *)
(* holds the calls that passed their checks and have not inserted yet.     *)
(***************************************************************************)
RaceCallers == {1, 2}
MaxRaceRows == 2

Pending(p) == {c \in calls : c.caller = p}

\* The statements of participateInChallenge up to the existence check.
ParticipateCheck(p, u, c) ==
    LET op == [op |-> "participateInChallenge", user |-> u, challenge |-> c]
        fail(msg) == /\ ret' = op @@ [err |-> msg]
                     /\ UNCHANGED calls
    IN
    /\ Pending(p) = {}
    /\ IF UserById(u) = {} THEN fail(ErrUserMissing)
       ELSE IF ChallengeById(c) = {} THEN fail(ErrChallengeMissing)
       ELSE LET challengeData == First(ChallengeById(c)) IN
            IF ~CurrentlyActive(challengeData, now) THEN fail(ErrNotActive)
            ELSE IF ExistingParticipation(u, c) # {} THEN fail(ErrAlreadyParticipated)
            ELSE /\ calls' = calls \cup {[caller |-> p, op |-> "participateInChallenge",
                                          user |-> u, challenge |-> c,
                                          points_reward |-> challengeData.points_reward]}
                 /\ UNCHANGED ret
    /\ UNCHANGED <<now, users, challenges, userPoints, certificates, tutorials,
                   userLikes, chatMessages, seq, roadmaps, userProgress, projects,
                   resources, userDownloads>>

\* Mutant of ParticipateInsert: the insert is refused when the pair already
\* has a row (a unique constraint on user_id, challenge_id).
ParticipateInsertUnique(p) ==
    /\ \E c \in Pending(p) :
         /\ c.op = "participateInChallenge"
         /\ calls' = calls \ {c}
         /\ IF PointsOf(c.user, c.challenge) # {}
              THEN /\ ret' = [op |-> c.op, user |-> c.user, challenge |-> c.challenge,
                              err |-> ErrViolatesUnique]
                   /\ UNCHANGED <<userPoints, seq>>
              ELSE /\ seq.user_points <= MaxRaceRows
                   /\ userPoints' = userPoints \cup
                          {[id |-> NextId("user_points"), user_id |-> c.user,
                            challenge_id |-> c.challenge,
                            points_earned |-> c.points_reward]}
                   /\ seq' = Advance("user_points")
                   /\ ret' = [op |-> c.op, user |-> c.user, challenge |-> c.challenge,
                              err |-> "", success |-> TRUE,
                              pointsEarned |-> c.points_reward]
    /\ UNCHANGED <<now, users, challenges, certificates, tutorials, userLikes,
                   chatMessages, roadmaps, userProgress, projects, resources,
                   userDownloads>>

\* The insert of participateInChallenge and its return; user_points has no
\* constraint besides its primary and foreign keys.
ParticipateInsert(p) ==
    /\ \E c \in Pending(p) :
         /\ c.op = "participateInChallenge"
         /\ seq.user_points <= MaxRaceRows
         /\ calls' = calls \ {c}
         /\ userPoints' = userPoints \cup
                {[id |-> NextId("user_points"), user_id |-> c.user,
                  challenge_id |-> c.challenge, points_earned |-> c.points_reward]}
         /\ seq' = Advance("user_points")
         /\ ret' = [op |-> c.op, user |-> c.user, challenge |-> c.challenge,
                    err |-> "", success |-> TRUE, pointsEarned |-> c.points_reward]
    /\ UNCHANGED <<now, users, challenges, certificates, tutorials, userLikes,
                   chatMessages, roadmaps, userProgress, projects, resources,
                   userDownloads>>

\* The statements of issueCertificate up to the look-up of an existing
\* certificate, which is returned when there is one.
IssueCheck(p, u, c) ==
    LET op == [op |-> "issueCertificate", user |-> u, challenge |-> c]
        fail(msg) == /\ ret' = op @@ [err |-> msg]
                     /\ UNCHANGED calls
    IN
    /\ Pending(p) = {}
    /\ IF UserById(u) = {} THEN fail(ErrUserMissing)
       ELSE IF ChallengeById(c) = {} THEN fail(ErrChallengeMissing)
       ELSE IF Participation(u, c) = {} THEN fail(ErrNotParticipated)
       ELSE IF ExistingCertificate(u, c) # {}
            THEN /\ ret' = op @@ [err |-> "", cert |-> First(ExistingCertificate(u, c))]
                 /\ UNCHANGED calls
       ELSE /\ calls' = calls \cup {[caller |-> p, op |-> "issueCertificate",
                                     user |-> u, challenge |-> c]}
            /\ UNCHANGED ret
    /\ UNCHANGED <<now, users, challenges, userPoints, certificates, tutorials,
                   userLikes, chatMessages, seq, roadmaps, userProgress, projects,
                   resources, userDownloads>>

\* The insert of issueCertificate and its return.
IssueInsert(p) ==
    /\ \E c \in Pending(p) :
         /\ c.op = "issueCertificate"
         /\ seq.certificates <= MaxRaceRows
         /\ calls' = calls \ {c}
         /\ LET row == [id |-> NextId("certificates"), user_id |-> c.user,
                        challenge_id |-> c.challenge,
                        certificate_url |-> CertificateUrl(c.user, c.challenge)] IN
            /\ certificates' = certificates \cup {row}
            /\ ret' = [op |-> c.op, user |-> c.user, challenge |-> c.challenge,
                       err |-> "", cert |-> row]
         /\ seq' = Advance("certificates")
    /\ UNCHANGED <<now, users, challenges, userPoints, tutorials, userLikes,
                   chatMessages, roadmaps, userProgress, projects, resources,
                   userDownloads>>

\* One registered user and two running challenges; two clients call at the
\* same time.
InitRace ==
    /\ now = 1
    /\ users = {SeedUser(1, "a@example.com", "free", Null, 0)}
    /\ \E p \in Rewards :
         challenges = {[id |-> 1, is_active |-> TRUE, start_date |-> 1, end_date |-> 2,
                        points_reward |-> p],
                       [id |-> 2, is_active |-> TRUE, start_date |-> 1, end_date |-> 2,
                        points_reward |-> 50]}
    /\ userPoints = {}
    /\ certificates = {}
    /\ tutorials = {}
    /\ userLikes = {}
    /\ chatMessages = {}
    /\ seq = [InitSeq EXCEPT !.challenges = 3]
    /\ ret = NoRet
    /\ OtherEmpty

NextRace ==
    \/ \E p \in RaceCallers, u \in UserIds, c \in ChallengeIds : ParticipateCheck(p, u, c)
    \/ \E p \in RaceCallers : ParticipateInsert(p)
    \/ \E p \in RaceCallers, u \in UserIds, c \in ChallengeIds : IssueCheck(p, u, c)
    \/ \E p \in RaceCallers : IssueInsert(p)

SpecRace == InitRace /\ [][NextRace]_vars

(***************************************************************************)
(* tutorials.ts: likeTutorial when calls interleave.  A call is four       *)
(* statements: the select of the existing like, the delete or the insert   *)
(* it decides on, the update of likes_count, and the select of the count   *)
(* it returns; other calls may run in between.  `calls` holds one record   *)
(* per client connection: idle, or the call it is in with the statement    *)
(* that comes next.  With one client the calls run one after another.      *)
(***************************************************************************)
LikeClients == {{1}, {1, 2}}

Idle(p) == [caller |-> p, pc |-> "idle"]
ClientAt(p, pc) == {c \in calls : c.caller = p /\ c.pc = pc}
Move(c, next) == (calls \ {c}) \cup {next}

\* First statement: the select of the existing like decides the branch.
LikeSelect(p, t, u) ==
    /\ \E c \in ClientAt(p, "idle") :
         calls' = Move(c, [caller |-> p, pc |-> "write", tutorial |-> t, user |-> u,
                           liked |-> (LikesOf(u, t) = {})])
    /\ UNCHANGED <<now, users, challenges, userPoints, certificates, tutorials,
                   userLikes, chatMessages, seq, ret, roadmaps, userProgress, projects,
                   resources, userDownloads>>

\* Mutant of LikeWrite: user_likes has a unique constraint on
\* (user_id, tutorial_id), so the second insert for a pair is refused.
LikeWriteUnique(p) ==
    /\ \E c \in ClientAt(p, "write") :
         IF ~c.liked
           THEN /\ userLikes' = RemoveLike(userLikes, c.user, c.tutorial)
                /\ calls' = Move(c, [c EXCEPT !.pc = "count"])
                /\ UNCHANGED <<seq, ret>>
         ELSE IF UserById(c.user) = {} \/ TutorialById(c.tutorial) = {}
           THEN /\ ret' = [op |-> "likeTutorial", tutorial |-> c.tutorial,
                           user |-> c.user, err |-> ErrForeignKey]
                /\ calls' = Move(c, Idle(p))
                /\ UNCHANGED <<userLikes, seq>>
         ELSE IF LikesOf(c.user, c.tutorial) # {}
           THEN /\ ret' = [op |-> "likeTutorial", tutorial |-> c.tutorial,
                           user |-> c.user, err |-> ErrViolatesUnique]
                /\ calls' = Move(c, Idle(p))
                /\ UNCHANGED <<userLikes, seq>>
         ELSE /\ seq.user_likes <= MaxLikeRows
              /\ userLikes' = userLikes \cup
                     {[id |-> NextId("user_likes"), user_id |-> c.user,
                       tutorial_id |-> c.tutorial]}
              /\ seq' = Advance("user_likes")
              /\ calls' = Move(c, [c EXCEPT !.pc = "count"])
              /\ UNCHANGED ret
    /\ UNCHANGED <<now, users, challenges, userPoints, certificates, tutorials,
                   chatMessages, roadmaps, userProgress, projects, resources,
                   userDownloads>>

\* Second statement: the delete of the pair's rows, or the insert of a row,
\* which the foreign keys of user_likes refuse for an unknown user or tutorial.
LikeWrite(p) ==
    /\ \E c \in ClientAt(p, "write") :
         IF ~c.liked
           THEN /\ userLikes' = RemoveLike(userLikes, c.user, c.tutorial)
                /\ calls' = Move(c, [c EXCEPT !.pc = "count"])
                /\ UNCHANGED <<seq, ret>>
         ELSE IF UserById(c.user) = {} \/ TutorialById(c.tutorial) = {}
           THEN /\ ret' = [op |-> "likeTutorial", tutorial |-> c.tutorial,
                           user |-> c.user, err |-> ErrForeignKey]
                /\ calls' = Move(c, Idle(p))
                /\ UNCHANGED <<userLikes, seq>>
         ELSE /\ seq.user_likes <= MaxLikeRows
              /\ userLikes' = userLikes \cup
                     {[id |-> NextId("user_likes"), user_id |-> c.user,
                       tutorial_id |-> c.tutorial]}
              /\ seq' = Advance("user_likes")
              /\ calls' = Move(c, [c EXCEPT !.pc = "count"])
              /\ UNCHANGED ret
    /\ UNCHANGED <<now, users, challenges, userPoints, certificates, tutorials,
                   chatMessages, roadmaps, userProgress, projects, resources,
                   userDownloads>>

\* Third statement: likes_count - 1 after the delete, + 1 after the insert.
LikeCount(p) ==
    /\ \E c \in ClientAt(p, "count") :
         /\ tutorials' = AddToLikesCount(tutorials, c.tutorial,
                                         IF c.liked THEN 1 ELSE -1)
         /\ calls' = Move(c, [c EXCEPT !.pc = "read"])
    /\ UNCHANGED <<now, users, challenges, userPoints, certificates, userLikes,
                   chatMessages, seq, ret, roadmaps, userProgress, projects,
                   resources, userDownloads>>

\* Fourth statement and the return: the count as it is stored by now.
LikeRead(p) ==
    /\ \E c \in ClientAt(p, "read") :
         /\ ret' = [op |-> "likeTutorial", tutorial |-> c.tutorial, user |-> c.user,
                    err |-> "", liked |-> c.liked,
                    likesCount |-> First(TutorialById(c.tutorial)).likes_count]
         /\ calls' = Move(c, Idle(p))
    /\ UNCHANGED <<now, users, challenges, userPoints, certificates, tutorials,
                   userLikes, chatMessages, seq, roadmaps, userProgress, projects,
                   resources, userDownloads>>

\* One registered user and one stored tutorial that already carries some likes
\* of users outside the model; one client, or two at the same time.
InitLikeRace ==
    /\ now = 1
    /\ users = {SeedUser(1, "a@example.com", "free", Null, 0)}
    /\ challenges = {}
    /\ userPoints = {}
    /\ certificates = {}
    /\ \E n \in SeedLikes : tutorials = {[id |-> 1, slug |-> GenerateSlug(SeedTitle), likes_count |-> n]}
    /\ userLikes = {}
    /\ chatMessages = {}
    /\ seq = InitSeq
    /\ ret = NoRet
    /\ roadmaps = {}
    /\ userProgress = {}
    /\ projects = {}
    /\ resources = {}
    /\ userDownloads = {}
    /\ \E clients \in LikeClients : calls = {Idle(p) : p \in clients}

NextLikeRace ==
    \/ \E p \in UNION LikeClients, t \in TutorialIds, u \in UserIds : LikeSelect(p, t, u)
    \/ \E p \in UNION LikeClients : LikeWrite(p)
    \/ \E p \in UNION LikeClients : LikeCount(p)
    \/ \E p \in UNION LikeClients : LikeRead(p)

SpecLikeRace == InitLikeRace /\ [][NextLikeRace]_vars

(***************************************************************************)
(* subscriptions.ts: upgradeWinner; admin.ts: grantProAccess,              *)
(* revokeProAccess.  Durations in days are turned into instants of the     *)
(* clock on a calendar whose months have DaysPerMonth days.                *)
(***************************************************************************)
DaysPerMonth == 30
WinnerDays == 30

\* The durations an admin passes to grantProAccess (any number is accepted).
GrantDays == {-30, 0, 30, 60}

\* date.setDate(date.getDate() + days), on the model's clock.
AddDays(t, days) == t + (days * MonthTicks) \div DaysPerMonth

\* Mutant of UpgradeWinner: an unknown user is passed over in silence.
UpgradeWinnerSilent(u) ==
    /\ users' = SetSubscription(u, "pro", AddDays(now, WinnerDays))
    /\ ret' = [op |-> "upgradeWinner", user |-> u, err |-> ""]
    /\ UNCHANGED other
    /\ UNCHANGED <<now, challenges, userPoints, certificates, tutorials, userLikes,
                   chatMessages, seq>>

\* upgradeWinner: the update returns the rows it changed; none is an error.
UpgradeWinner(u) ==
    /\ users' = SetSubscription(u, "pro", AddDays(now, WinnerDays))
    /\ ret' = IF UserById(u) = {}
                THEN [op |-> "upgradeWinner", user |-> u, err |-> ErrUserNotFound]
                ELSE [op |-> "upgradeWinner", user |-> u, err |-> "",
                      row |-> [First(UserById(u)) EXCEPT
                                 !.subscription_plan = "pro",
                                 !.subscription_expires_at = AddDays(now, WinnerDays)]]
    /\ UNCHANGED other
    /\ UNCHANGED <<now, challenges, userPoints, certificates, tutorials, userLikes,
                   chatMessages, seq>>

\* Mutant of GrantProAccess: the grant is for life (no expiry is stored).
GrantProAccessForLife(u, duration) ==
    /\ users' = SetSubscription(u, "pro", Null)
    /\ ret' = [op |-> "grantProAccess", user |-> u, duration |-> duration, err |-> "",
               success |-> TRUE]
    /\ UNCHANGED other
    /\ UNCHANGED <<now, challenges, userPoints, certificates, tutorials, userLikes,
                   chatMessages, seq>>

GrantProAccess(u, duration) ==
    /\ users' = SetSubscription(u, "pro", AddDays(now, duration))
    /\ ret' = [op |-> "grantProAccess", user |-> u, duration |-> duration, err |-> "",
               success |-> TRUE]
    /\ UNCHANGED other
    /\ UNCHANGED <<now, challenges, userPoints, certificates, tutorials, userLikes,
                   chatMessages, seq>>

RevokeProAccess(u) ==
    /\ users' = SetSubscription(u, "free", Null)
    /\ ret' = [op |-> "revokeProAccess", user |-> u, err |-> "", success |-> TRUE]
    /\ UNCHANGED other
    /\ UNCHANGED <<now, challenges, userPoints, certificates, tutorials, userLikes,
                   chatMessages, seq>>

(***************************************************************************)
(* The AI tutor next to the handlers that change a user's plan: every RPC  *)
(* operation that writes the users table.                                  *)
(***************************************************************************)
UsageSeedUsed == {8, 10}

\* One stored user on any plan with a counter near or at the free ceiling;
\* user 2 is unknown.
InitUsage ==
    /\ now = 1
    /\ \E pe \in SeedPlans, n \in UsageSeedUsed :
         users = {SeedUser(1, "a@example.com", pe[1], pe[2], n)}
    /\ challenges = {}
    /\ userPoints = {}
    /\ certificates = {}
    /\ tutorials = {}
    /\ userLikes = {}
    /\ chatMessages = {}
    /\ seq = InitSeq
    /\ ret = NoRet
    /\ OtherEmpty

NextUsage ==
    \/ \E u \in UserIds, ctx \in ContextTypes : SendMessage(u, ctx)
    \/ \E u \in UserIds, d \in Durations : CreateSubscription(u, d)
    \/ \E u \in UserIds : CancelSubscription(u)
    \/ \E u \in UserIds : UpgradeWinner(u)
    \/ \E u \in UserIds, d \in GrantDays : GrantProAccess(u, d)
    \/ \E u \in UserIds : RevokeProAccess(u)
    \/ Tick

SpecUsage == InitUsage /\ [][NextUsage]_vars

(***************************************************************************)
(* projects.ts: downloadProject, and ai_tutor.ts: sendMessage, when calls  *)
(* interleave.  downloadProject is three statements (select of the         *)
(* project, insert of the download, update of download_count); sendMessage *)
(* is four (select of the user, the select of checkAIUsageLimit, insert of *)
(* the message, update of ai_queries_used_today).  Both updates write a    *)
(* value computed from the first select.  `calls` holds one record per     *)
(* client connection, as for likeTutorial.                                 *)
(***************************************************************************)
StaleClients == {1, 2}

\* ai_queries_used_today of the stored user: one query short of the free
\* ceiling.
StaleSeedUsed == FreeLimit - 1

DownloadSelect(p, projectId, userId) ==
    /\ \E c \in ClientAt(p, "idle") :
         IF ProjectById(projectId) = {}
           THEN /\ ret' = [op |-> "downloadProject", project |-> projectId,
                           user |-> userId, err |-> ErrProjectNotFound]
                /\ UNCHANGED calls
           ELSE /\ calls' = Move(c, [caller |-> p, pc |-> "download_insert",
                                     project |-> projectId, user |-> userId,
                                     read |-> First(ProjectById(projectId)).download_count])
                /\ UNCHANGED ret
    /\ UNCHANGED <<now, users, challenges, userPoints, certificates, tutorials,
                   userLikes, chatMessages, seq, roadmaps, userProgress, projects,
                   resources, userDownloads>>

DownloadInsert(p) ==
    /\ \E c \in ClientAt(p, "download_insert") :
         IF UserById(c.user) = {}
           THEN /\ ret' = [op |-> "downloadProject", project |-> c.project,
                           user |-> c.user, err |-> ErrForeignKey]
                /\ calls' = Move(c, Idle(p))
                /\ UNCHANGED <<userDownloads, seq>>
           ELSE /\ seq.user_downloads <= MaxDownloads
                /\ userDownloads' = userDownloads \cup
                       {[id |-> NextId("user_downloads"), user_id |-> c.user,
                         resource_id |-> Null, project_id |-> c.project]}
                /\ seq' = Advance("user_downloads")
                /\ calls' = Move(c, [c EXCEPT !.pc = "download_update"])
                /\ UNCHANGED ret
    /\ UNCHANGED <<now, users, challenges, userPoints, certificates, tutorials,
                   userLikes, chatMessages, roadmaps, userProgress, projects,
                   resources>>

\* Mutant of DownloadUpdate: the store adds 1 to the count it holds
\* (download_count = download_count + 1).
DownloadUpdateInStore(p) ==
    /\ \E c \in ClientAt(p, "download_update") :
         /\ projects' = {IF r.id = c.project
                           THEN [r EXCEPT !.download_count = @ + 1]
                           ELSE r : r \in projects}
         /\ ret' = [op |-> "downloadProject", project |-> c.project, user |-> c.user,
                    err |-> "", downloadUrl |-> ProjectDownloadUrl(c.project)]
         /\ calls' = Move(c, Idle(p))
    /\ UNCHANGED <<now, users, challenges, userPoints, certificates, tutorials,
                   userLikes, chatMessages, seq, roadmaps, userProgress, resources,
                   userDownloads>>

\* The update writes project[0].download_count + 1, project[0] being the row
\* the first statement read.
DownloadUpdate(p) ==
    /\ \E c \in ClientAt(p, "download_update") :
         /\ projects' = {IF r.id = c.project
                           THEN [r EXCEPT !.download_count = IncrementedCount(c.read)]
                           ELSE r : r \in projects}
         /\ ret' = [op |-> "downloadProject", project |-> c.project, user |-> c.user,
                    err |-> "", downloadUrl |-> ProjectDownloadUrl(c.project)]
         /\ calls' = Move(c, Idle(p))
    /\ UNCHANGED <<now, users, challenges, userPoints, certificates, tutorials,
                   userLikes, chatMessages, seq, roadmaps, userProgress, resources,
                   userDownloads>>

SendSelect(p, u, ctx) ==
    /\ \E c \in ClientAt(p, "idle") :
         IF UserById(u) = {}
           THEN /\ ret' = [op |-> "sendMessage", user |-> u, err |-> ErrUserNotFound]
                /\ UNCHANGED calls
           ELSE /\ calls' = Move(c, [caller |-> p, pc |-> "send_check", user |-> u,
                                     ctx |-> ctx,
                                     read |-> First(UserById(u)).ai_queries_used_today])
                /\ UNCHANGED ret
    /\ UNCHANGED <<now, users, challenges, userPoints, certificates, tutorials,
                   userLikes, chatMessages, seq, roadmaps, userProgress, projects,
                   resources, userDownloads>>

\* checkAIUsageLimit reads the user again.
SendCheck(p) ==
    /\ \E c \in ClientAt(p, "send_check") :
         IF UserById(c.user) = {}
           THEN /\ ret' = [op |-> "sendMessage", user |-> c.user, err |-> ErrUserNotFound]
                /\ calls' = Move(c, Idle(p))
         ELSE IF ~UsageCheck(First(UserById(c.user)), now).canUse
           THEN /\ ret' = [op |-> "sendMessage", user |-> c.user, err |-> ErrLimit]
                /\ calls' = Move(c, Idle(p))
         ELSE /\ calls' = Move(c, [c EXCEPT !.pc = "send_insert"])
              /\ UNCHANGED ret
    /\ UNCHANGED <<now, users, challenges, userPoints, certificates, tutorials,
                   userLikes, chatMessages, seq, roadmaps, userProgress, projects,
                   resources, userDownloads>>

SendInsert(p) ==
    /\ \E c \in ClientAt(p, "send_insert") :
         /\ seq.chat_messages <= MaxSends
         /\ chatMessages' = chatMessages \cup
                {[id |-> NextId("chat_messages"), user_id |-> c.user,
                  context_type |-> c.ctx, response |-> AiResponse(c.ctx)]}
         /\ seq' = Advance("chat_messages")
         /\ calls' = Move(c, [caller |-> p, pc |-> "send_update", user |-> c.user,
                               read |-> c.read, message |-> NextId("chat_messages")])
    /\ UNCHANGED <<now, users, challenges, userPoints, certificates, tutorials,
                   userLikes, ret, roadmaps, userProgress, projects, resources,
                   userDownloads>>

\* The update writes user.ai_queries_used_today + 1, user being the row the
\* first statement read; the stored message is returned.
SendUpdate(p) ==
    /\ \E c \in ClientAt(p, "send_update") :
         /\ users' = {IF r.id = c.user
                        THEN [r EXCEPT !.ai_queries_used_today = c.read + 1]
                        ELSE r : r \in users}
         /\ ret' = [op |-> "sendMessage", user |-> c.user, err |-> "",
                    message |-> First({m \in chatMessages : m.id = c.message})]
         /\ calls' = Move(c, Idle(p))
    /\ UNCHANGED <<now, challenges, userPoints, certificates, tutorials, userLikes,
                   chatMessages, seq, roadmaps, userProgress, projects, resources,
                   userDownloads>>

\* One free user one query short of the ceiling and one project nobody has
\* downloaded; two clients.
InitStale ==
    /\ now = 1
    /\ users = {SeedUser(1, "a@example.com", "free", Null, StaleSeedUsed)}
    /\ challenges = {}
    /\ userPoints = {}
    /\ certificates = {}
    /\ tutorials = {}
    /\ userLikes = {}
    /\ chatMessages = {}
    /\ seq = [InitSeq EXCEPT !.projects = 2]
    /\ ret = NoRet
    /\ roadmaps = {}
    /\ userProgress = {}
    /\ projects = {[id |-> 1, slug |-> GenerateSlug(SeedTitle), download_count |-> 0]}
    /\ resources = {}
    /\ userDownloads = {}
    /\ calls = {Idle(p) : p \in StaleClients}

NextStale ==
    \/ \E p \in StaleClients, i \in ProjectIds, u \in UserIds : DownloadSelect(p, i, u)
    \/ \E p \in StaleClients : DownloadInsert(p)
    \/ \E p \in StaleClients : DownloadUpdate(p)
    \/ \E p \in StaleClients, u \in UserIds, ctx \in ContextTypes : SendSelect(p, u, ctx)
    \/ \E p \in StaleClients : SendCheck(p)
    \/ \E p \in StaleClients : SendInsert(p)
    \/ \E p \in StaleClients : SendUpdate(p)

SpecStale == InitStale /\ [][NextStale]_vars

(***************************************************************************)
(* The life of an account: register, then the handlers that change or read *)
(* a user's plan.  User 3 never registers.                                 *)
(***************************************************************************)
AccountUserIds == {1, 2, 3}

\* Nobody has registered yet.
InitAccount ==
    /\ now = 1
    /\ users = {}
    /\ challenges = {}
    /\ userPoints = {}
    /\ certificates = {}
    /\ tutorials = {}
    /\ userLikes = {}
    /\ chatMessages = {}
    /\ seq = [InitSeq EXCEPT !.users = 1]
    /\ ret = NoRet
    /\ OtherEmpty

NextAccount ==
    \/ \E e \in Emails : CreateUser(e)
    \/ \E u \in AccountUserIds, d \in Durations : CreateSubscription(u, d)
    \/ \E u \in AccountUserIds : CancelSubscription(u)
    \/ \E u \in AccountUserIds : UpgradeWinner(u)
    \/ \E u \in AccountUserIds, d \in GrantDays : GrantProAccess(u, d)
    \/ \E u \in AccountUserIds : RevokeProAccess(u)
    \/ \E u \in AccountUserIds : CheckProAccess(u)
    \/ Tick

SpecAccount == InitAccount /\ [][NextAccount]_vars

(***************************************************************************)
(* dashboard.ts: getDashboardData.  The handler reads the user's row, the  *)
(* user's progress rows, counts the user's chat messages, lists the user's *)
(* downloads, computes the rank bundle and reads the user's certificates.  *)
(* The two sums of the rank bundle are the same query; the count that      *)
(* gives the rank has no WHERE clause.                                     *)
(***************************************************************************)
\* .limit(10) of the download history.
DownloadHistoryLimit == 10

\* The download history: the user's latest downloads (ids grow with
\* downloaded_at), each with its type.
DownloadHistory(u) ==
    LET mine == {r \in userDownloads : r.user_id = u}
        latest == {r \in mine :
                     Cardinality({q \in mine : q.id > r.id}) < DownloadHistoryLimit}
    IN {[id |-> r.id,
         type |-> IF r.resource_id # Null THEN "resource" ELSE "project"] : r \in latest}

\* The rank bundle of the dashboard: SUM(points_earned) of the user's rows
\* twice, and the number of rows of user_points plus one.
DashboardRank(u) ==
    [rank |-> Cardinality(userPoints) + 1,
     totalPoints |-> Coalesce(SumOrNull(u)),
     weeklyPoints |-> Coalesce(SumOrNull(u))]

GetDashboardData(u) ==
    LET op == [op |-> "getDashboardData", user |-> u] IN
    /\ ret' = IF UserById(u) = {}
                THEN op @@ [err |-> ErrUserNotFound]
                ELSE op @@ [err |-> "",
                            row |-> CHOOSE r \in UserById(u) : TRUE,
                            progress |-> {r \in userProgress : r.user_id = u},
                            recentChatMessages |->
                                Cardinality({r \in chatMessages : r.user_id = u}),
                            downloadHistory |-> DownloadHistory(u),
                            userRank |-> DashboardRank(u),
                            certificates |-> {r \in certificates : r.user_id = u}]
    /\ UNCHANGED <<now, users, challenges, userPoints, certificates, tutorials,
                   userLikes, chatMessages, seq, other>>

\* The dashboard beside the challenge handlers, on the platform of InitBoard.
NextDashboard ==
    \/ \E u \in BoardUserIds, c \in BoardChallengeIds : ParticipateInChallenge(u, c)
    \/ \E u \in BoardUserIds : GetUserRank(u)
    \/ \E u \in BoardUserIds : GetDashboardData(u)

SpecDashboard == InitBoard /\ [][NextDashboard]_vars

(***************************************************************************)
(* Claims about challenge participation and certificates (SpecChallenge).  *)
(***************************************************************************)
\* The guard of participation written out: user and challenge exist, the
\* challenge is switched on and start_date <= now <= end_date.
MayParticipate(u, c) ==
    /\ UserById(u) # {}
    /\ \E ch \in ChallengeById(c) :
         ch.is_active /\ ch.start_date <= now /\ now <= ch.end_date

\* C1 as stated: once a UserPoints row exists for (user, challenge), every later
\* participateInChallenge call for the pair, in any later state, fails with
\* 'User has already participated in this challenge' and changes no row.
C1_AlwaysAlreadyParticipated ==
    [][\A u \in UserIds, c \in ChallengeIds :
         (PointsOf(u, c) # {} /\ ParticipateInChallenge(u, c))
           => (ret'.err = ErrAlreadyParticipated /\ userPoints' = userPoints)]_vars

\* C1 amended: a pair never has more than one UserPoints row; a successful call
\* inserts exactly one row for its pair; a call for a pair that already has a
\* row fails and changes no row, with 'User has already participated in this
\* challenge' while the challenge is still active and inside its window and with
\* 'Challenge is not currently active' otherwise.
C1_AtMostOncePerPair ==
    /\ [](\A u \in UserIds, c \in ChallengeIds : Cardinality(PointsOf(u, c)) <= 1)
    /\ [][\A u \in UserIds, c \in ChallengeIds :
            ParticipateInChallenge(u, c) =>
              IF PointsOf(u, c) # {}
                THEN /\ userPoints' = userPoints
                     /\ ret'.err = IF MayParticipate(u, c) THEN ErrAlreadyParticipated
                                                           ELSE ErrNotActive
                ELSE ret'.err = "" =>
                       /\ Cardinality({r \in userPoints' : r.user_id = u /\ r.challenge_id = c}) = 1
                       /\ Cardinality(userPoints') = Cardinality(userPoints) + 1]_vars

\* A repeated call was rejected as a duplicate and the pair still has one row.
C1_Witness ==
    /\ ret.op = "participateInChallenge"
    /\ ret.err = ErrAlreadyParticipated
    /\ Cardinality(PointsOf(ret.user, ret.challenge)) = 1

\* C2: participateInChallenge inserts a row only under its guard (bounds of the
\* window inclusive), and does insert one when the guard holds and the pair has
\* no row; the row's points_earned and the returned pointsEarned equal the
\* challenge's points_reward; a rejected call inserts nothing.
C2_GuardedInsert ==
    [][\A u \in UserIds, c \in ChallengeIds :
         ParticipateInChallenge(u, c) =>
           /\ userPoints' # userPoints => MayParticipate(u, c)
           /\ (MayParticipate(u, c) /\ PointsOf(u, c) = {}) => ret'.err = ""
           /\ UserById(u) = {} => ret'.err = ErrUserMissing
           /\ (UserById(u) # {} /\ ChallengeById(c) = {}) => ret'.err = ErrChallengeMissing
           /\ (UserById(u) # {} /\ ChallengeById(c) # {} /\ ~MayParticipate(u, c))
                => ret'.err = ErrNotActive
           /\ ret'.err # "" => userPoints' = userPoints
           /\ ret'.err = "" =>
                \E row \in userPoints' \ userPoints :
                  /\ userPoints' = userPoints \cup {row}
                  /\ row.user_id = u /\ row.challenge_id = c
                  /\ \A ch \in ChallengeById(c) :
                       /\ row.points_earned = ch.points_reward
                       /\ ret'.pointsEarned = ch.points_reward
                       /\ ret'.success = TRUE]_vars

\* A participation accepted at the very instant the window opens.
C2_Witness ==
    /\ ret.op = "participateInChallenge"
    /\ ret.err = ""
    /\ \E ch \in ChallengeById(ret.challenge) : ch.start_date = now
    /\ \E row \in PointsOf(ret.user, ret.challenge) : row.points_earned = ret.pointsEarned

\* C3: for a participant, issueCertificate always succeeds; once a certificate
\* exists for the pair every call returns that same row (same id, same url) and
\* inserts nothing, so the pair holds exactly one certificate after the first
\* call; certificate rows are never changed or removed.
C3_IdempotentIssuance ==
    /\ [](\A u \in UserIds, c \in ChallengeIds : Cardinality(CertificatesOf(u, c)) <= 1)
    /\ [][certificates \subseteq certificates']_vars
    /\ [][\A u \in UserIds, c \in ChallengeIds :
            (IssueCertificate(u, c) /\ PointsOf(u, c) # {}) =>
              /\ ret'.err = ""
              /\ {r \in certificates' : r.user_id = u /\ r.challenge_id = c} = {ret'.cert}
              /\ ret'.cert.certificate_url = CertificateUrl(u, c)
              /\ CertificatesOf(u, c) # {} =>
                   /\ certificates' = certificates
                   /\ ret'.cert \in CertificatesOf(u, c)]_vars

\* The first certificate is returned again after a later one was issued: a
\* repeated call that found the existing row.
C3_Witness ==
    /\ ret.op = "issueCertificate"
    /\ ret.err = ""
    /\ ret.cert.id = 1
    /\ seq.certificates = 3
    /\ CertificatesOf(ret.user, ret.challenge) = {ret.cert}

\* C4: issueCertificate fails and inserts nothing unless user and challenge
\* exist and the pair has a UserPoints row; every certificate row has a
\* UserPoints row for the same user and challenge.
C4_CertificateNeedsParticipation ==
    /\ [](\A cert \in certificates : PointsOf(cert.user_id, cert.challenge_id) # {})
    /\ [][\A u \in UserIds, c \in ChallengeIds :
            (IssueCertificate(u, c)
               /\ ~(UserById(u) # {} /\ ChallengeById(c) # {} /\ PointsOf(u, c) # {}))
              => (ret'.err # "" /\ certificates' = certificates)]_vars

\* A non-participant was refused while another pair holds a certificate.
C4_Witness ==
    /\ ret.op = "issueCertificate"
    /\ ret.err = ErrNotParticipated
    /\ certificates # {}
    /\ PointsOf(ret.user, ret.challenge) = {}

(***************************************************************************)
(* Claims about tutorial likes (SpecLike).                                 *)
(***************************************************************************)
StoredLikes(tuts, t) == First({r \in tuts : r.id = t}).likes_count

\* C5: toggle law.  From any reachable store in which the tutorial exists with
\* likes_count = n and the user has no like row, two likeTutorial calls in a
\* row return {liked: TRUE, likesCount: n+1} and {liked: FALSE, likesCount: n};
\* one like row for the pair after the first, none after the second, stored
\* count back to n; and every call returns the count stored after its mutation.
C5_ToggleLaw ==
    /\ [](\A t \in TutorialIds, u \in UserIds :
            (TutorialById(t) # {} /\ UserById(u) # {} /\ LikesOf(u, t) = {}) =>
              LET n == StoredLikes(tutorials, t)
                  a == LikeOutcome(userLikes, tutorials, users, seq.user_likes, t, u)
                  b == LikeOutcome(a.userLikes, a.tutorials, users, a.next, t, u)
              IN /\ a.ret.err = "" /\ a.ret.liked = TRUE /\ a.ret.likesCount = n + 1
                 /\ Cardinality({r \in a.userLikes : r.user_id = u /\ r.tutorial_id = t}) = 1
                 /\ StoredLikes(a.tutorials, t) = n + 1
                 /\ b.ret.err = "" /\ b.ret.liked = FALSE /\ b.ret.likesCount = n
                 /\ {r \in b.userLikes : r.user_id = u /\ r.tutorial_id = t} = {}
                 /\ StoredLikes(b.tutorials, t) = n)
    /\ [][\A t \in TutorialIds, u \in UserIds :
            (LikeTutorial(t, u) /\ ret'.err = "") =>
              /\ ret'.likesCount = StoredLikes(tutorials', t)
              /\ ret'.liked = (LikesOf(u, t) = {})
              /\ ret'.liked = ({r \in userLikes' : r.user_id = u /\ r.tutorial_id = t} # {})]_vars

\* The second call of a pair of calls has just removed the like: the tutorial
\* is back at its seeded count with no like row for the pair.
C5_Witness ==
    /\ ret.op = "likeTutorial"
    /\ ret.err = ""
    /\ ret.liked = FALSE
    /\ LikesOf(ret.user, ret.tutorial) = {}
    /\ ret.likesCount \in SeedLikes
    /\ StoredLikes(tutorials, ret.tutorial) = ret.likesCount

(***************************************************************************)
(* Claims about AI usage limiting (SpecAI).                                *)
(***************************************************************************)
\* The ceiling as the specification states it: 100 for a pro plan whose expiry
\* is null or later than now, 10 otherwise.
StatedLimit(user, t) ==
    IF /\ user.subscription_plan = "pro"
       /\ (user.subscription_expires_at = Null \/ user.subscription_expires_at > t)
      THEN 100 ELSE 10

\* C6 as stated: checkAIUsageLimit returns limit 100 exactly for a pro plan with
\* null or future expiry and 10 otherwise, queriesUsed is the stored counter and
\* canUse is queriesUsed < limit.
C6_LimitByPlan ==
    [][\A u \in UserIds :
         (CheckAIUsageLimit(u) /\ UserById(u) # {}) =>
           LET user == First(UserById(u)) IN
           /\ ret'.err = ""
           /\ ret'.limit = StatedLimit(user, now)
           /\ ret'.queriesUsed = user.ai_queries_used_today
           /\ ret'.canUse = (ret'.queriesUsed < ret'.limit)]_vars

\* C7 as stated, the user's limit being the stated ceiling: sendMessage at or
\* over the limit fails with the limit error and changes nothing; below the
\* limit it stores one ChatMessage for the user and raises the counter by 1;
\* for an unknown user it fails with 'User not found' and changes nothing.
C7_SendWithinLimit ==
    [][\A u \in UserIds, ctx \in ContextTypes :
         SendMessage(u, ctx) =>
           IF UserById(u) = {}
             THEN /\ ret'.err = ErrUserNotFound
                  /\ UNCHANGED <<users, chatMessages>>
             ELSE LET user == First(UserById(u)) IN
                  IF user.ai_queries_used_today >= StatedLimit(user, now)
                    THEN /\ ret'.err = ErrLimit
                         /\ UNCHANGED <<users, chatMessages>>
                    ELSE /\ ret'.err = ""
                         /\ \E row \in chatMessages' \ chatMessages :
                              /\ chatMessages' = chatMessages \cup {row}
                              /\ row.user_id = u
                         /\ users' = (users \ {user}) \cup
                              {[user EXCEPT !.ai_queries_used_today = @ + 1]}]_vars

(***************************************************************************)
(* Claims about subscriptions (SpecSub).                                   *)
(***************************************************************************)
\* C8: checkProAccess returns hasProAccess = TRUE exactly for plan pro with a
\* null expiry or an expiry strictly later than now (FALSE for free, FALSE for
\* pro with an expiry at or before now), expiresAt is the stored expiry, and an
\* unknown user fails with 'User not found'.
C8_ProAccessRule ==
    [][\A u \in UserIds :
         CheckProAccess(u) =>
           IF UserById(u) = {}
             THEN ret'.err = ErrUserNotFound
             ELSE LET user == First(UserById(u))
                      exp == user.subscription_expires_at IN
                  /\ ret'.err = ""
                  /\ ret'.expiresAt = exp
                  /\ ret'.hasProAccess =
                       (user.subscription_plan = "pro" /\ (exp = Null \/ exp > now))
                  /\ user.subscription_plan = "free" => ret'.hasProAccess = FALSE
                  /\ (user.subscription_plan = "pro" /\ exp # Null /\ exp <= now)
                       => ret'.hasProAccess = FALSE]_vars

\* A pro user is refused at the very instant of the expiry.
C8_Witness ==
    /\ ret.op = "checkProAccess"
    /\ ret.err = ""
    /\ ret.hasProAccess = FALSE
    /\ ret.expiresAt = now
    /\ \E r \in UserById(ret.user) :
         r.subscription_plan = "pro" /\ r.subscription_expires_at = now

\* C9: createSubscription on an existing user stores plan pro with expiry =
\* call time + 1 month (monthly) or + 1 year (annual); for a pro user with an
\* expiry, checkProAccess is TRUE at every instant before it and FALSE from it
\* on; cancelSubscription stores plan free with null expiry, for which
\* checkProAccess is FALSE; both transitions are possible in every state.
C9_SubscriptionLifecycle ==
    /\ [][\A u \in UserIds, d \in Durations :
            (CreateSubscription(u, d) /\ UserById(u) # {}) =>
              \E r \in users' :
                /\ r.id = u
                /\ r.subscription_plan = "pro"
                /\ r.subscription_expires_at =
                     now + (IF d = "monthly" THEN MonthTicks ELSE YearTicks)
                /\ users' = (users \ UserById(u)) \cup {r}]_vars
    /\ [][\A u \in UserIds :
            (CancelSubscription(u) /\ UserById(u) # {}) =>
              \E r \in users' :
                /\ r.id = u
                /\ r.subscription_plan = "free"
                /\ r.subscription_expires_at = Null
                /\ users' = (users \ UserById(u)) \cup {r}]_vars
    /\ [][\A u \in UserIds :
            (CheckProAccess(u) /\ UserById(u) # {}) =>
              LET user == First(UserById(u)) IN
              /\ (user.subscription_plan = "pro" /\ user.subscription_expires_at # Null)
                   => ret'.hasProAccess = (now < user.subscription_expires_at)
              /\ (user.subscription_plan = "free" /\ user.subscription_expires_at = Null)
                   => ret'.hasProAccess = FALSE]_vars
    /\ [](\A u \in UserIds : UserById(u) # {} =>
            /\ \A d \in Durations : ENABLED CreateSubscription(u, d)
            /\ ENABLED CancelSubscription(u))

\* A user who registered (free), subscribed and was then checked at the instant
\* the subscription ran out.
C9_Witness ==
    /\ ret.op = "checkProAccess"
    /\ ret.user = 2
    /\ ret.err = ""
    /\ ret.hasProAccess = FALSE
    /\ \E r \in UserById(2) :
         r.subscription_plan = "pro" /\ r.subscription_expires_at = now

\* C10: checkProAccess changes no stored row: plan and expiry of every user,
\* an expired pro user included, are the same after the call as before.
C10_CheckIsReadOnly ==
    [][\A u \in UserIds :
         CheckProAccess(u) =>
           /\ users' = users
           /\ UNCHANGED <<challenges, userPoints, certificates, tutorials, userLikes,
                          chatMessages, seq, other>>]_vars

\* An expired pro user was checked and refused, and is still stored as pro with
\* the same past expiry.
C10_Witness ==
    /\ ret.op = "checkProAccess"
    /\ ret.err = ""
    /\ ret.hasProAccess = FALSE
    /\ \E r \in UserById(ret.user) :
         /\ r.subscription_plan = "pro"
         /\ r.subscription_expires_at # Null
         /\ r.subscription_expires_at < now
         /\ r.subscription_expires_at = ret.expiresAt

(***************************************************************************)
(* Claims about progress tracking (SpecProgress).                          *)
(***************************************************************************)
ProgressRowsOfTutorial(u, t) ==
    {r \in userProgress : r.user_id = u /\ r.tutorial_id = t}

ProgressRowsOfRoadmap(u, m) ==
    {r \in userProgress : r.user_id = u /\ r.roadmap_id = m}

\* C11: after any sequence of updateUserProgress calls there is at most one
\* progress row per (user, tutorial) and at most one per (user, roadmap), and
\* a second call for a (user, roadmap) that already has a row returns that row
\* carrying the call's percentage and completed nodes and inserts nothing.
C11_OneRowPerPair ==
    /\ [](\A u \in ProgressUserIds :
            /\ \A t \in TutorialIds : Cardinality(ProgressRowsOfTutorial(u, t)) <= 1
            /\ \A m \in RoadmapIds : Cardinality(ProgressRowsOfRoadmap(u, m)) <= 1)
    /\ [][\A u \in ProgressUserIds, input \in ProgressInputs :
            (/\ UpdateUserProgress(u, input)
             /\ Has(input, "roadmap_id")
             /\ ProgressRowsOfRoadmap(u, input.roadmap_id) # {})
            => /\ ret'.err = ""
               /\ ret'.row.progress_percentage = input.progress_percentage
               /\ ret'.row.completed_nodes = OrElse(input, "completed_nodes", <<>>)
               /\ Cardinality(userProgress') = Cardinality(userProgress)]_vars

(***************************************************************************)
(* Claims about the leaderboard (SpecBoardFull, SpecBoard).                *)
(***************************************************************************)
PointsTotal(u) == SumPoints({r \in userPoints : r.user_id = u})

ScoringUsers == {r.id : r \in {q \in users : PointsTotal(q.id) > 0}}

\* What every leaderboard has: entries of scoring users, no user twice, each
\* with the sum of the user's rows as total, highest total first, rank equal
\* to the position.
WellFormedBoard(e) ==
    /\ LET scoring == ScoringUsers IN \A i \in 1..Len(e) : e[i].user_id \in scoring
    /\ \A i \in 1..Len(e) :
         /\ e[i].total_points = PointsTotal(e[i].user_id)
         /\ e[i].rank = i
    /\ \A i \in 1..Len(e), j \in 1..Len(e) :
         i < j => /\ e[i].user_id # e[j].user_id
                  /\ e[i].total_points >= e[j].total_points

\* C12 as stated: getLeaderboard returns exactly the users whose summed points
\* are greater than 0, each with the sum of their rows as total_points,
\* ordered by total descending, rank equal to the 1-based position.
C12_ExactlyScoringUsers ==
    [][(ret'.op = "getLeaderboard" /\ GetLeaderboard) =>
         /\ WellFormedBoard(ret'.entries)
         /\ {ret'.entries[i].user_id : i \in 1..Len(ret'.entries)} = ScoringUsers]_vars

\* C12 amended: the leaderboard is well formed and holds the scoring users up
\* to the limit of 100 entries; when more users score, the ones left out have
\* totals no higher than the last entry's.
C12_TopScoringUsers ==
    [][(ret'.op = "getLeaderboard" /\ GetLeaderboard) =>
         LET e == ret'.entries
             listed == {e[i].user_id : i \in 1..Len(e)}
             scoring == ScoringUsers
         IN /\ WellFormedBoard(e)
            /\ Len(e) = IF Cardinality(scoring) <= LeaderboardLimit
                          THEN Cardinality(scoring) ELSE LeaderboardLimit
            /\ \A u \in scoring \ listed :
                 \A i \in 1..Len(e) : PointsTotal(u) <= e[i].total_points]_vars

\* A full leaderboard: users 1 and 2 both score, user 1 with 200 points closes
\* the list at rank 100 and user 2 with 100 points is left out.
C12_Witness ==
    /\ ret.op = "getLeaderboard"
    /\ Len(ret.entries) = LeaderboardLimit
    /\ ret.entries[LeaderboardLimit].user_id = 1
    /\ ret.entries[LeaderboardLimit].total_points = 200
    /\ ret.entries[LeaderboardLimit].rank = LeaderboardLimit
    /\ PointsTotal(2) = 100
    /\ ret.entries[1].total_points > ret.entries[2].total_points

\* C13: getUserRank of a stored user returns totalPoints equal to the sum of
\* the user's rows (0 without rows) and rank equal to 1 + the number of users
\* with a strictly larger total, so that users level on points get the same
\* rank and a user without points is first exactly when nobody has points; for
\* an unknown id it fails with 'User with id N does not exist'.
C13_RankCountsStrictlyHigher ==
    /\ [][\A u \in BoardUserIds :
            GetUserRank(u) =>
              IF UserById(u) = {} THEN ret'.err = ErrUserMissing
              ELSE /\ ret'.err = ""
                   /\ ret'.totalPoints = PointsTotal(u)
                   /\ ret'.rank = 1 + Cardinality({r \in users :
                                                     PointsTotal(r.id) > PointsTotal(u)})
                   /\ (PointsTotal(u) = 0 =>
                         (ret'.rank = 1 <=> userPoints = {}))]_vars
    /\ [][\A u \in BoardUserIds, v \in BoardUserIds :
            (/\ ret.op = "getUserRank" /\ ret.user = u /\ ret.err = ""
             /\ GetUserRank(v) /\ UserById(v) # {}
             /\ PointsTotal(u) = PointsTotal(v))
            => ret'.rank = ret.rank]_vars

\* Both users stand at 550 points and the second was just ranked first, level
\* with the other.
C13_Witness ==
    /\ ret.op = "getUserRank"
    /\ ret.user = 2
    /\ ret.err = ""
    /\ ret.rank = 1
    /\ ret.totalPoints = 550
    /\ PointsTotal(1) = 550

\* C14: the badges of a leaderboard entry follow from its total alone: at
\* least 1000 points give exactly high_achiever, 500 to 999 exactly achiever,
\* 100 to 499 exactly participant, fewer than 100 no badge.
C14_BadgeThresholds ==
    ret.op = "getLeaderboard" =>
      \A i \in 1..Len(ret.entries) :
        LET total == ret.entries[i].total_points
            badges == ret.entries[i].badges
        IN /\ total >= 1000 => badges = <<"high_achiever">>
           /\ (500 <= total /\ total < 1000) => badges = <<"achiever">>
           /\ (100 <= total /\ total < 500) => badges = <<"participant">>
           /\ total < 100 => badges = <<>>

\* A leaderboard with a user at exactly 1000 points carrying high_achiever
\* above a user at 50 points without a badge.
C14_Witness ==
    /\ ret.op = "getLeaderboard"
    /\ Len(ret.entries) = 2
    /\ ret.entries[1].total_points = 1000
    /\ ret.entries[1].badges = <<"high_achiever">>
    /\ ret.entries[2].total_points = 50
    /\ ret.entries[2].badges = <<>>

(***************************************************************************)
(* Claims about registration (SpecRegister).                               *)
(***************************************************************************)
\* C15: no two user rows ever share an email.  A register call whose email
\* already belongs to a user when it checks fails with 'User with this email
\* already exists' and inserts nothing; a call that passed the check but finds
\* the email taken when it inserts fails on the unique constraint and inserts
\* nothing either.
C15_EmailsUnique ==
    /\ [](\A e \in Emails : Cardinality(UserByEmail(e)) <= 1)
    /\ [][\A p \in Callers, e \in Emails :
            (CreateUserSelect(p, e) /\ UserByEmail(e) # {})
            => /\ ret'.err = ErrEmailTaken
               /\ ret'.email = e
               /\ users' = users
               /\ calls' = calls]_vars
    /\ [][\A p \in Callers :
            (CreateUserInsert(p) /\ \E c \in calls : c.caller = p /\ UserByEmail(c.email) # {})
            => /\ ret'.err = ErrViolatesUnique
               /\ users' = users]_vars

\* Two calls with the same new email both passed the check; one inserted and
\* the other has just failed on the unique constraint.
C15_Witness ==
    /\ ret.op = "createUser"
    /\ ret.err = ErrViolatesUnique
    /\ Cardinality(UserByEmail(ret.email)) = 1
    /\ calls = {}
    /\ Cardinality(users) = 1

(***************************************************************************)
(* Claims about downloads (SpecDownload).                                  *)
(***************************************************************************)
DownloadsOfProject(rows, p) == {r \in rows : r.project_id = p}
DownloadsOfResource(rows, m) == {r \in rows : r.resource_id = m}

\* C16: downloadProject by a stored user on a stored project adds exactly one
\* download row (user, project), raises that project's download_count by one,
\* leaves every other project alone and returns the URL built from the
\* project id; on an unknown project it fails with 'Project not found' and
\* changes nothing.  So every project's download_count equals the number of
\* its download rows, and no download row ever goes away.
C16_DownloadsCounted ==
    /\ [][\A p \in DownloadProjectIds, u \in UserIds :
            DownloadProject(p, u) =>
              IF ProjectById(p) = {}
                THEN /\ ret'.err = ErrProjectNotFound
                     /\ userDownloads' = userDownloads
                     /\ projects' = projects
              ELSE IF UserById(u) = {}
                THEN /\ ret'.err # ""
                     /\ userDownloads' = userDownloads
                     /\ projects' = projects
              ELSE /\ ret'.err = ""
                   /\ ret'.downloadUrl =
                        <<"https://example.com/download/project-", p, ".zip">>
                   /\ userDownloads \subseteq userDownloads'
                   /\ \E row \in userDownloads' :
                        /\ userDownloads' \ userDownloads = {row}
                        /\ row.user_id = u
                        /\ row.project_id = p
                   /\ \A r \in projects : \E q \in projects' :
                        /\ q.id = r.id
                        /\ q.download_count =
                             IF r.id = p THEN r.download_count + 1 ELSE r.download_count
                   /\ Cardinality(projects') = Cardinality(projects)]_vars
    /\ [](\A r \in projects :
            r.download_count = Cardinality(DownloadsOfProject(userDownloads, r.id)))
    /\ [][userDownloads \subseteq userDownloads']_vars

\* Project 2 was just downloaded for the second time while project 1 has one
\* download.
C16_Witness ==
    /\ ret.op = "downloadProject"
    /\ ret.err = ""
    /\ ret.project = 2
    /\ \E r \in ProjectById(2) : r.download_count = 2
    /\ \E r \in ProjectById(1) : r.download_count = 1
    /\ Cardinality(DownloadsOfProject(userDownloads, 2)) = 2

UrlSafeChars ==
    Range(LowerCaseLetters) \cup Range(UpperCaseLetters) \cup Digits \cup {".", "-"}

BeginsWithFilePrefix(s) ==
    Len(s) >= 5 /\ SubSeq(s, 1, 5) = <<"f", "i", "l", "e", "_">>

\* C18: generateUploadUrl succeeds exactly when the size is at most 104857600
\* bytes and the type is in the allow-list; a size above the limit gives the
\* size error whatever the type, an unlisted type within the limit the type
\* error; on success the file id begins with file_ and the URL carries the
\* file name with every character outside [A-Za-z0-9.-] replaced by an
\* underscore, the other characters and the length unchanged.
C18_UploadValidation ==
    ret.op = "generateUploadUrl" =>
      /\ ret.err = "" <=> (ret.file_size <= 104857600 /\ ret.file_type \in AllowedTypes)
      /\ ret.file_size > 104857600 => ret.err = ErrFileSize
      /\ (ret.file_size <= 104857600 /\ ret.file_type \notin AllowedTypes)
           => ret.err = ErrFileType
      /\ ret.err = "" =>
           /\ BeginsWithFilePrefix(ret.fileId)
           /\ ret.uploadUrl[2] = ret.fileId
           /\ Len(ret.uploadUrl[4]) = Len(ret.file_name)
           /\ \A i \in 1..Len(ret.file_name) :
                ret.uploadUrl[4][i] =
                  IF ret.file_name[i] \in UrlSafeChars THEN ret.file_name[i] ELSE "_"

\* A file of exactly the maximum size was accepted and the blanks, the
\* ampersand and the exclamation mark of its name became underscores.
C18_Witness ==
    /\ ret.op = "generateUploadUrl"
    /\ ret.err = ""
    /\ ret.file_size = 104857600
    /\ ret.file_name = ExampleFileName
    /\ ret.uploadUrl[4][3] = "_"
    /\ ret.uploadUrl[4][21] = "_"
    /\ ret.uploadUrl[4][30] = "_"
    /\ ret.uploadUrl[4][31] = "."

\* C19: confirmFileUpload and deleteFile fail with 'Invalid file ID format'
\* exactly for the empty id and for ids that do not begin with file_; they
\* keep no state, so an id that generateUploadUrl has just returned is
\* accepted by both, an id that was deleted is still confirmed, and so is any
\* well-formed id that was never handed out.
C19_FileIdContract ==
    /\ [](ret.op \in {"confirmFileUpload", "deleteFile"} =>
            /\ ret.err \in {"", ErrFileId}
            /\ ret.err = ErrFileId <=>
                 (ret.fileId = <<>> \/ ~BeginsWithFilePrefix(ret.fileId)))
    /\ [][\A fileId \in FileIdInputs :
            (ConfirmFileUpload(fileId) \/ DeleteFile(fileId)) =>
              /\ UNCHANGED <<users, challenges, userPoints, certificates, tutorials,
                             userLikes, chatMessages, seq, other>>
              /\ (ret.op \in {"generateUploadUrl", "deleteFile", "confirmFileUpload"}
                  /\ ret.err = "" /\ ret.fileId = fileId) => ret'.err = ""]_vars

\* The id handed out at instant 2 was confirmed after the request was served.
C19_Witness ==
    /\ ret.op = "confirmFileUpload"
    /\ ret.err = ""
    /\ ret.fileId = <<"f", "i", "l", "e", "_", "2", "_", "k">>
    /\ calls = {}
    /\ now > 2

(***************************************************************************)
(* Claims about slugs (SpecSlug).                                          *)
(***************************************************************************)
\* The slug as the specification derives it: lower case, only [a-z0-9], white
\* space and hyphens kept, white-space runs to one hyphen, hyphen runs to one
\* hyphen, hyphens trimmed from both ends.
StatedSlug(title) ==
    LET lowered == ToLowerCase(title)
        kept == SelectSeq(lowered, KeptInSlug)
        hyphenated == ReplaceRuns(ReplaceRuns(kept, Whitespace), {"-"})
    IN TrimEnd(TrimStart(hyphenated, {"-"}), {"-"})

WellTrimmed(slug) ==
    /\ slug # <<>> => (slug[1] # "-" /\ slug[Len(slug)] # "-")
    /\ \A i \in 1..(Len(slug) - 1) : ~(slug[i] = "-" /\ slug[i + 1] = "-")

\* C20: the slug that createTutorial and createProject store for a title is
\* the slug the specification derives from it; no stored slug begins or ends
\* with a hyphen and none contains two hyphens in a row.
C20_SlugAsStated ==
    /\ (ret.op \in {"createTutorial", "createProject"} /\ ret.err = "")
         => ret.slug = StatedSlug(ret.title)
    /\ \A r \in tutorials : WellTrimmed(r.slug)
    /\ \A r \in projects : WellTrimmed(r.slug)

(***************************************************************************)
(* Claims about interleaved participation and certificates (SpecRace).     *)
(***************************************************************************)
\* C21: a participateInChallenge call that has passed its existence check
\* inserts its row and succeeds whatever rows the pair has by then, so two
\* calls for one pair that both checked before either inserted leave two
\* UserPoints rows and the reward twice in the user's total; issueCertificate
\* likewise inserts after its look-up whatever certificates exist by then.
C21_InsertAfterCheckSucceeds ==
    [][\A p \in RaceCallers : \A c \in Pending(p) :
         /\ (c.op = "participateInChallenge" /\ ParticipateInsert(p)) =>
              /\ ret'.err = "" /\ ret'.success
              /\ ret'.pointsEarned = c.points_reward
              /\ Cardinality({r \in userPoints' : r.user_id = c.user
                                                  /\ r.challenge_id = c.challenge}) =
                   Cardinality(PointsOf(c.user, c.challenge)) + 1
              /\ SumPoints({r \in userPoints' : r.user_id = c.user}) =
                   Coalesce(SumOrNull(c.user)) + c.points_reward
         /\ (c.op = "issueCertificate" /\ IssueInsert(p)) =>
              /\ ret'.err = ""
              /\ Cardinality({r \in certificates' : r.user_id = c.user
                                                   /\ r.challenge_id = c.challenge}) =
                   Cardinality(CertificatesOf(c.user, c.challenge)) + 1]_vars

\* Two rows for one pair, the reward counted twice, and two certificates for
\* the pair.
C21_Witness ==
    \E ch \in challenges :
       /\ Cardinality(PointsOf(1, ch.id)) = 2
       /\ Coalesce(SumOrNull(1)) = 2 * ch.points_reward
       /\ Cardinality(CertificatesOf(1, ch.id)) = 2

(***************************************************************************)
(* Claims about interleaved likes (SpecLikeRace).                          *)
(***************************************************************************)
\* No call is between two of its statements.
AllIdle == \A c \in calls : c.pc = "idle"

\* Calls run one after another: there is one client.
OneAfterAnother == Cardinality(calls) = 1

\* C22: when calls run one after another, between calls the likes_count of the
\* seeded tutorial equals its initial value plus the number of its UserLikes
\* rows and is never below the initial value.  When calls interleave, a call
\* acts on what its select saw: its insert adds a row even when the pair has
\* one by then, and its decrement is applied even when its delete removed
\* nothing.
C22_CountMatchesLikes ==
    /\ \A n \in SeedLikes :
         (StoredLikes(tutorials, 1) = n) =>
           []((OneAfterAnother /\ AllIdle) =>
                /\ StoredLikes(tutorials, 1) =
                     n + Cardinality({r \in userLikes : r.tutorial_id = 1})
                /\ StoredLikes(tutorials, 1) >= n)
    /\ [][\A p \in UNION LikeClients :
            /\ \A c \in ClientAt(p, "write") :
                 (LikeWrite(p) /\ c.liked /\ UserById(c.user) # {}
                               /\ TutorialById(c.tutorial) # {}) =>
                   Cardinality({r \in userLikes' : r.user_id = c.user
                                                   /\ r.tutorial_id = c.tutorial}) =
                     Cardinality(LikesOf(c.user, c.tutorial)) + 1
            /\ \A c \in ClientAt(p, "count") :
                 (LikeCount(p) /\ ~c.liked) =>
                   StoredLikes(tutorials', c.tutorial) =
                     StoredLikes(tutorials, c.tutorial) - 1]_vars

\* Two like rows for one pair while the count, decremented twice for one
\* removed like, is below zero.
C22_Witness ==
    /\ Cardinality(LikesOf(1, 1)) = 2
    /\ StoredLikes(tutorials, 1) < 0

(***************************************************************************)
(* Claims about the AI query counter over time (SpecUsage).                *)
(***************************************************************************)
\* The user's plan is pro with an expiry in the future.
ProWithFutureExpiry(user, t) ==
    /\ user.subscription_plan = "pro"
    /\ user.subscription_expires_at # Null
    /\ user.subscription_expires_at > t

C24_CountersFromEarlierRead ==
    /\ [][\A p \in StaleClients :
            /\ \A c \in ClientAt(p, "download_update") :
                 DownloadUpdate(p) =>
                   \A r \in projects' : r.id = c.project => r.download_count = c.read + 1
            /\ \A c \in ClientAt(p, "send_update") :
                 SendUpdate(p) =>
                   \A r \in users' :
                      r.id = c.user => r.ai_queries_used_today = c.read + 1]_vars
    /\ [](/\ \A r \in projects :
               r.download_count <= Cardinality(DownloadsOfProject(userDownloads, r.id))
          /\ \A r \in users :
               r.ai_queries_used_today <=
                 StaleSeedUsed + Cardinality({m \in chatMessages : m.user_id = r.id}))

\* No call in flight: two download rows of one project whose download_count
\* is 1, and two stored messages of the user whose counter went from 9 to 10.
C24_Witness ==
    /\ AllIdle
    /\ \E r \in projects :
         /\ r.download_count = 1
         /\ Cardinality(DownloadsOfProject(userDownloads, r.id)) = 2
    /\ \E r \in users :
         /\ r.ai_queries_used_today = 10
         /\ Cardinality({m \in chatMessages : m.user_id = r.id}) = 2

(***************************************************************************)
(* Claims about plans and expiries (SpecAccount).                          *)
(***************************************************************************)
\* C25: in every state reached from register through createSubscription,
\* cancelSubscription, upgradeWinner, grantProAccess and revokeProAccess, a
\* user's plan is free exactly when subscription_expires_at is null.
C25_FreeIffNoExpiry ==
    \A r \in users :
       (r.subscription_plan = "free") <=> (r.subscription_expires_at = Null)

\* One user was granted pro access and carries an expiry; the other had it
\* revoked and is free without one.
C25_Witness ==
    /\ ret.op = "revokeProAccess"
    /\ \E r \in UserById(ret.user) :
         r.subscription_plan = "free" /\ r.subscription_expires_at = Null
    /\ \E r \in users :
         /\ r.id # ret.user
         /\ r.subscription_plan = "pro"
         /\ r.subscription_expires_at # Null

\* The expiry of a stored user before and after a step.
ExpiryOf(rows, u) == First({r \in rows : r.id = u}).subscription_expires_at

\* One of the three upgrading handlers acts on user u.
Upgrades(u) ==
    \/ \E d \in Durations : CreateSubscription(u, d)
    \/ UpgradeWinner(u)
    \/ \E d \in GrantDays : GrantProAccess(u, d)

\* C29 as stated: createSubscription, upgradeWinner and grantProAccess leave
\* the expiry of a user who has pro access at least as late as it was.
C29_ExpiryNeverEarlier ==
    [][\A u \in AccountUserIds :
         (UserById(u) # {} /\ HasProAccess(First(UserById(u)), now) /\ Upgrades(u)) =>
           ExpiryOf(users', u) >= ExpiryOf(users, u)]_vars

\* C30: called with a user id that is not stored, createSubscription,
\* cancelSubscription, grantProAccess and revokeProAccess change no row of the
\* users table and return success: true without an error, whereas
\* upgradeWinner and checkProAccess fail with 'User not found' (and change no
\* row either).
C30_UnknownUser ==
    [][\A u \in AccountUserIds :
         UserById(u) = {} =>
           /\ \A d \in Durations :
                (ret'.op = "createSubscription" /\ CreateSubscription(u, d)) =>
                  users' = users /\ ret'.err = "" /\ ret'.success = TRUE
           /\ (ret'.op = "cancelSubscription" /\ CancelSubscription(u)) =>
                users' = users /\ ret'.err = "" /\ ret'.success = TRUE
           /\ \A d \in GrantDays :
                (ret'.op = "grantProAccess" /\ GrantProAccess(u, d)) =>
                  users' = users /\ ret'.err = "" /\ ret'.success = TRUE
           /\ (ret'.op = "revokeProAccess" /\ RevokeProAccess(u)) =>
                users' = users /\ ret'.err = "" /\ ret'.success = TRUE
           /\ (ret'.op = "upgradeWinner" /\ UpgradeWinner(u)) =>
                users' = users /\ ret'.err = "User not found"
           /\ (ret'.op = "checkProAccess" /\ CheckProAccess(u)) =>
                users' = users /\ ret'.err = "User not found"]_vars

\* grantProAccess has returned success for user 3, who never registered; the
\* two registered users are still free.
C30_Witness ==
    /\ ret.op = "grantProAccess"
    /\ ret.user = 3
    /\ ret.err = ""
    /\ ret.success = TRUE
    /\ UserById(3) = {}
    /\ Cardinality(users) = 2
    /\ \A r \in users : r.subscription_plan = "free"

(***************************************************************************)
(* Claims about the rows a progress update touches (SpecProgress).         *)
(***************************************************************************)
\* The ids of the rows that a step created or changed.
TouchedProgressIds(before, after) == {r.id : r \in after \ before}

\* C28: updateUserProgress(user, input) creates or changes at most one
\* UserProgress row, a row of that user for input.tutorial_id or
\* input.roadmap_id when the input names one, removes none and leaves every
\* other row as it was, for every input shape (only tutorial_id, only
\* roadmap_id, both, neither).
C28_AtMostOneRowTouched ==
    [][\A u \in ProgressUserIds, input \in ProgressInputs :
         (ret'.user = u /\ ret'.input = input /\ UpdateUserProgress(u, input)) =>
           /\ Cardinality(TouchedProgressIds(userProgress, userProgress')) <= 1
           /\ \A r \in userProgress : \E q \in userProgress' : q.id = r.id
           /\ \A q \in userProgress' \ userProgress :
                /\ q.user_id = u
                /\ Has(input, "tutorial_id") => q.tutorial_id = input.tutorial_id
                /\ Has(input, "roadmap_id") => q.roadmap_id = input.roadmap_id]_vars

(***************************************************************************)
(* Claims about the dashboard (SpecDashboard).                             *)
(***************************************************************************)
\* C26: the rank bundle that getDashboardData returns for a user agrees with
\* getUserRank for that user in the same state: its rank is one more than
\* the number of users with a strictly larger total, and its totalPoints is
\* the sum of the user's points.  (The claim's third part, weeklyPoints over
\* the trailing 7 days, is not in the formula: the point rows here carry no
\* earned_at.  The formula is therefore no stronger than the claim.)
C26_DashboardAgreesWithUserRank ==
    [][\A u \in BoardUserIds :
         (ret'.op = "getDashboardData" /\ GetDashboardData(u) /\ ret'.err = "")
           => /\ ret'.userRank.totalPoints = Coalesce(SumOrNull(u))
              /\ ret'.userRank.rank =
                   Cardinality(HigherUsers(Coalesce(SumOrNull(u)))) + 1]_vars

(***************************************************************************)
(* Claims relating the leaderboard to getUserRank (SpecBoard).             *)
(***************************************************************************)
\* C27: every entry of the result of getLeaderboard carries the rank that
\* getUserRank gives that entry's user in the same state (one more than the
\* number of users with a strictly larger total), also when several users
\* have the same total.
C27_EntryRankIsUserRank ==
    [][(ret'.op = "getLeaderboard" /\ GetLeaderboard)
         => \A i \in DOMAIN ret'.entries :
              ret'.entries[i].rank =
                Cardinality(HigherUsers(
                    Coalesce(SumOrNull(ret'.entries[i].user_id)))) + 1]_vars

\* The users level with user u on total points, u included.
LevelUsers(u) ==
    {r \in users : Coalesce(SumOrNull(r.id)) = Coalesce(SumOrNull(u))}

\* C27 (amended): the rank of a leaderboard entry is its position, which lies
\* within the block of the users level with the entry's user: it is at least
\* the rank getUserRank gives that user and less than that rank plus the
\* number of users with the same total.  The two ranks are equal for a user
\* whose total no other user has.
C27_EntryRankWithinLevelBlock ==
    [][(ret'.op = "getLeaderboard" /\ GetLeaderboard)
         => \A i \in DOMAIN ret'.entries :
              LET u == ret'.entries[i].user_id
                  rank == Cardinality(HigherUsers(Coalesce(SumOrNull(u)))) + 1
                  level == Cardinality(LevelUsers(u))
              IN /\ rank <= ret'.entries[i].rank
                 /\ ret'.entries[i].rank < rank + level
                 /\ level = 1 => ret'.entries[i].rank = rank]_vars

\* A leaderboard whose first two users are level on points.
C27_Witness ==
    /\ ret.op = "getLeaderboard"
    /\ Len(ret.entries) >= 2
    /\ ret.entries[1].total_points = ret.entries[2].total_points
    /\ Cardinality(LevelUsers(ret.entries[1].user_id)) = 2
====
